---- MODULE Spec2Model ----
(***************************************************************************)
(* Model of the streaming relay of the Ollama starter server               *)
(* (src/unnamed/part_000): the POST /chat-stream handler and streamOllama, *)
(* which reads the upstream body chunk by chunk, frames it into lines,     *)
(* decodes each line as JSON and writes every string `response` to the     *)
(* downstream HTTP response; and of config.json with readConfig,           *)
(* writeConfig and the GET /config and POST /config routes.  A second      *)
(* part models the accounts of src/server.js: users.json with readUsers    *)
(* and writeUsers, the session's userId, and the /api routes that sign up, *)
(* sign in, change a password, delete an account and plan a trip.          *)
(*                                                                         *)
(* Text is a sequence of one-character strings.  Bytes are strings too: an *)
(* ASCII byte is written as its character, the two bytes of U+00E9 are     *)
(* "xC3" and "xA9".                                                        *)
(***************************************************************************)
EXTENDS Integers, Sequences, FiniteSets, TLC

\* ------------------------------------------------------------------------
\* Bounds
\* ------------------------------------------------------------------------

\* Largest number of lines in one upstream body.
MaxLines == 2

\* Largest size of a chunk that ends inside a line.
MaxChunk == 3

\* ------------------------------------------------------------------------
\* Characters
\* ------------------------------------------------------------------------

NL == "\n"
QUOTE == "\""
BSLASH == "\\"
LeadByte == "xC3"
ContByte == "xA9"
EAcute == "e'"
Replacement == "uFFFD"

\* White space removed by String.prototype.trim and skipped by JSON.parse
\* (the members of both sets that occur in the modelled alphabet).
WhiteSpace == {" ", "\t", "\r", NL}

Digits == {"0", "1", "2", "3", "4", "5", "6", "7", "8", "9"}

\* ------------------------------------------------------------------------
\* TextDecoder.decode(value, { stream: true })
\* ------------------------------------------------------------------------

\* Utf8Decode without { stream: true }: every call decodes its bytes alone
\* and a lead byte at the end of the chunk decodes to U+FFFD.
Utf8DecodeNoStream(pend, bs) ==
    LET n == Len(bs)
        out == [i \in 1..n |->
                  IF bs[i] = LeadByte
                  THEN IF i < n /\ bs[i + 1] = ContByte THEN "" ELSE Replacement
                  ELSE IF bs[i] = ContByte
                       THEN IF i > 1 /\ bs[i - 1] = LeadByte
                            THEN EAcute ELSE Replacement
                       ELSE bs[i]]
    IN [text |-> SelectSeq(out, LAMBDA c : c # ""), pend |-> << >>]

\* Decodes the bytes bs after the carried-over bytes pend; returns the text
\* produced and the bytes carried over to the next call.  A lead byte waits
\* for its continuation byte, also across calls; a lead byte followed by
\* anything else and a continuation byte without a lead byte each decode
\* to U+FFFD.
Utf8Decode(pend, bs) ==
    LET full == pend \o bs
        n == Len(full)
        out == [i \in 1..n |->
                  IF full[i] = LeadByte
                  THEN IF i = n \/ full[i + 1] = ContByte THEN "" ELSE Replacement
                  ELSE IF full[i] = ContByte
                       THEN IF i > 1 /\ full[i - 1] = LeadByte
                            THEN EAcute ELSE Replacement
                       ELSE full[i]]
    IN [text |-> SelectSeq(out, LAMBDA c : c # ""),
        pend |-> IF n > 0 /\ full[n] = LeadByte THEN <<LeadByte>> ELSE << >>]

\* ------------------------------------------------------------------------
\* String helpers: indexOf, slice, trim
\* ------------------------------------------------------------------------

Min(S) == CHOOSE x \in S : \A y \in S : x <= y
Max(S) == CHOOSE x \in S : \A y \in S : x >= y

\* s.indexOf(c), 1-based; 0 when there is none.
IndexOf(s, c) ==
    LET hits == {i \in 1..Len(s) : s[i] = c} IN
    IF hits = {} THEN 0 ELSE Min(hits)

\* s.slice(from - 1, to) with 1-based inclusive bounds.
Slice(s, from, to) == IF from > to THEN << >> ELSE SubSeq(s, from, to)

\* s.trim()
Trim(s) ==
    LET keep == {i \in 1..Len(s) : s[i] \notin WhiteSpace} IN
    IF keep = {} THEN << >> ELSE SubSeq(s, Min(keep), Max(keep))

\* ------------------------------------------------------------------------
\* JSON.parse, for values built from strings (escapes \" \\ \/ \n \t \r),
\* numbers, true, false, null, arrays and objects.
\* ------------------------------------------------------------------------

JVal(t, s, m) == [t |-> t, s |-> s, m |-> m]
JNull == JVal("null", << >>, << >>)
PFail == [ok |-> FALSE, val |-> JNull, next |-> 0]
POk(v, n) == [ok |-> TRUE, val |-> v, next |-> n]

RECURSIVE SkipWS(_, _)
SkipWS(s, i) ==
    IF i <= Len(s) /\ s[i] \in WhiteSpace THEN SkipWS(s, i + 1) ELSE i

\* TRUE when the characters of lit occur in s from position i on.
Matches(s, i, lit) ==
    /\ i + Len(lit) - 1 <= Len(s)
    /\ \A k \in 1..Len(lit) : s[i + k - 1] = lit[k]

Unescape(c) ==
    CASE c = "n" -> NL
      [] c = "t" -> "\t"
      [] c = "r" -> "\r"
      [] OTHER -> c

\* Body of a string literal from position i on, the opening quote consumed.
RECURSIVE ParseStrBody(_, _, _)
ParseStrBody(s, i, acc) ==
    IF i > Len(s) THEN PFail
    ELSE IF s[i] = QUOTE THEN POk(JVal("string", acc, << >>), i + 1)
    ELSE IF s[i] = BSLASH
         THEN IF i + 1 <= Len(s) /\ s[i + 1] \in {QUOTE, BSLASH, "/", "n", "t", "r"}
              THEN ParseStrBody(s, i + 2, Append(acc, Unescape(s[i + 1])))
              ELSE PFail
    ELSE IF s[i] \in {NL, "\t", "\r"} THEN PFail
    ELSE ParseStrBody(s, i + 1, Append(acc, s[i]))

RECURSIVE ParseDigits(_, _)
ParseDigits(s, i) ==
    IF i <= Len(s) /\ s[i] \in Digits THEN ParseDigits(s, i + 1) ELSE i

DigitChars == <<"0", "1", "2", "3", "4", "5", "6", "7", "8", "9">>
DigitVal(c) == (CHOOSE k \in 1..10 : DigitChars[k] = c) - 1

RECURSIVE ToNat(_)
ToNat(d) ==
    IF d = << >> THEN 0
    ELSE 10 * ToNat(SubSeq(d, 1, Len(d) - 1)) + DigitVal(d[Len(d)])

RECURSIVE NatToDigits(_)
NatToDigits(n) ==
    IF n < 10 THEN <<DigitChars[n + 1]>>
    ELSE Append(NatToDigits(n \div 10), DigitChars[(n % 10) + 1])

Zeros(k) == [i \in 1..k |-> "0"]

StripLead(d) ==
    LET nz == {i \in 1..Len(d) : d[i] # "0"} IN
    IF nz = {} THEN << >> ELSE SubSeq(d, Min(nz), Len(d))

StripTrail(d) ==
    LET nz == {i \in 1..Len(d) : d[i] # "0"} IN
    IF nz = {} THEN << >> ELSE SubSeq(d, 1, Max(nz))

\* 0.a < 0.b for digit sequences without trailing zeros.
FracLess(a, b) ==
    LET diff == {i \in 1..Len(a) : i > Len(b) \/ a[i] # b[i]} IN
    IF diff = {} THEN Len(a) < Len(b)
    ELSE LET i == Min(diff) IN i <= Len(b) /\ DigitVal(a[i]) < DigitVal(b[i])

Infinity == <<"I", "n", "f", "i", "n", "i", "t", "y">>

\* The digits of the least decimal that rounds to Infinity, 0.17976...e309.
OverflowDigits ==
    <<"1", "7", "9", "7", "6", "9", "3", "1", "3", "4", "8", "6", "2", "3",
      "1", "5", "8">>

\* Number::toString of the double denoted by the literal with integer part
\* ip, fraction fp and exponent e: the value is 0.D * 10^p for the
\* significant digits D.  A literal beyond the double range denotes
\* Infinity, one below it 0; -0 is taken as 0.  Exact for literals of at
\* most 15 significant digits.
NumberText(neg, ip, fp, e) ==
    LET d1 == StripLead(ip \o fp)
        D == StripTrail(d1)
        n == Len(D)
        p == (Len(d1) - Len(fp)) + e
        sign == IF neg THEN <<"-">> ELSE << >>
    IN IF D = << >> \/ p < -323 THEN <<"0">>
       ELSE IF p > 309 \/ (p = 309 /\ ~FracLess(D, OverflowDigits))
            THEN sign \o Infinity
       ELSE IF p > 0 /\ p <= 21
            THEN IF n <= p THEN sign \o D \o Zeros(p - n)
                 ELSE sign \o SubSeq(D, 1, p) \o <<".">> \o SubSeq(D, p + 1, n)
       ELSE IF p > -6 /\ p <= 0
            THEN sign \o <<"0", ".">> \o Zeros(-p) \o D
       ELSE sign \o (IF n = 1 THEN D ELSE <<D[1], ".">> \o Tail(D))
                 \o <<"e", IF p - 1 < 0 THEN "-" ELSE "+">>
                 \o NatToDigits(IF p - 1 < 0 THEN 1 - p ELSE p - 1)

\* A number literal whose integer part is s[j..k-1], whose fraction (if
\* any) ends before f and whose exponent digits (if any) start at q.
NumberEnd(s, j, k, f, q, neg) ==
    LET x == IF q > f THEN ParseDigits(s, q) ELSE f IN
    IF q > f /\ x = q THEN PFail
    ELSE POk(JVal("number",
                  NumberText(neg, SubSeq(s, j, k - 1),
                             IF f > k THEN SubSeq(s, k + 1, f - 1) ELSE << >>,
                             IF q = f THEN 0
                             ELSE IF s[q - 1] = "-"
                                  THEN -ToNat(SubSeq(s, q, x - 1))
                                  ELSE ToNat(SubSeq(s, q, x - 1))),
                  << >>), x)

\* The exponent part, from position f on: (e|E) (+|-)? digits
NumberExp(s, j, k, f, neg) ==
    IF f = k + 1 THEN PFail
    ELSE NumberEnd(s, j, k, f,
                   IF f <= Len(s) /\ s[f] \in {"e", "E"}
                   THEN IF f + 1 <= Len(s) /\ s[f + 1] \in {"+", "-"}
                        THEN f + 2 ELSE f + 1
                   ELSE f,
                   neg)

\* The fraction part, from position k on: . digits
NumberFrac(s, j, k, neg) ==
    NumberExp(s, j, k,
              IF k <= Len(s) /\ s[k] = "." THEN ParseDigits(s, k + 1) ELSE k,
              neg)

\* The integer part, from position j on: 0 or digits without a leading 0
NumberInt(s, j, neg) ==
    IF j > Len(s) \/ s[j] \notin Digits THEN PFail
    ELSE NumberFrac(s, j, IF s[j] = "0" THEN j + 1 ELSE ParseDigits(s, j), neg)

\* A number literal at position i: -? int frac? exp?
ParseNumber(s, i) ==
    NumberInt(s, IF s[i] = "-" THEN i + 1 ELSE i, s[i] = "-")

\* The members acc of an object after the member k: v is defined: a key
\* that is already there keeps its place and takes the new value.
PutMember(acc, k, v) ==
    LET at == {i \in 1..Len(acc) : acc[i].k = k} IN
    IF at = {} THEN Append(acc, [k |-> k, v |-> v])
    ELSE [i \in 1..Len(acc) |-> IF i \in at THEN [k |-> k, v |-> v] ELSE acc[i]]

RECURSIVE ParseValue(_, _)
RECURSIVE ParseMembers(_, _, _)
RECURSIVE ParseElements(_, _, _)

\* One JSON value starting at position i (leading white space skipped).
ParseValue(s, i0) ==
    LET i == SkipWS(s, i0) IN
    IF i > Len(s) THEN PFail
    ELSE IF s[i] = QUOTE THEN ParseStrBody(s, i + 1, << >>)
    ELSE IF s[i] = "-" \/ s[i] \in Digits THEN ParseNumber(s, i)
    ELSE IF Matches(s, i, <<"n", "u", "l", "l">>) THEN POk(JNull, i + 4)
    ELSE IF Matches(s, i, <<"t", "r", "u", "e">>)
         THEN POk(JVal("boolean", <<"t", "r", "u", "e">>, << >>), i + 4)
    ELSE IF Matches(s, i, <<"f", "a", "l", "s", "e">>)
         THEN POk(JVal("boolean", <<"f", "a", "l", "s", "e">>, << >>), i + 5)
    ELSE IF s[i] = "{"
         THEN LET j == SkipWS(s, i + 1) IN
              IF j <= Len(s) /\ s[j] = "}"
              THEN POk(JVal("object", << >>, << >>), j + 1)
              ELSE ParseMembers(s, j, << >>)
    ELSE IF s[i] = "["
         THEN LET j == SkipWS(s, i + 1) IN
              IF j <= Len(s) /\ s[j] = "]"
              THEN POk(JVal("array", << >>, << >>), j + 1)
              ELSE ParseElements(s, j, << >>)
    ELSE PFail

\* Members of an object from position i on: "key" : value (, ...)* }
ParseMembers(s, i0, acc) ==
    LET i == SkipWS(s, i0) IN
    IF i > Len(s) \/ s[i] # QUOTE THEN PFail
    ELSE LET k == ParseStrBody(s, i + 1, << >>) IN
         IF ~k.ok THEN PFail
         ELSE LET c == SkipWS(s, k.next) IN
              IF c > Len(s) \/ s[c] # ":" THEN PFail
              ELSE LET v == ParseValue(s, c + 1) IN
                   IF ~v.ok THEN PFail
                   ELSE LET e == SkipWS(s, v.next)
                            mem == PutMember(acc, k.val.s, v.val)
                        IN IF e > Len(s) THEN PFail
                           ELSE IF s[e] = "}"
                                THEN POk(JVal("object", << >>, mem), e + 1)
                           ELSE IF s[e] = ","
                                THEN ParseMembers(s, e + 1, mem)
                           ELSE PFail

\* Elements of an array from position i on: value (, value)* ]
ParseElements(s, i0, acc) ==
    LET v == ParseValue(s, i0) IN
    IF ~v.ok THEN PFail
    ELSE LET e == SkipWS(s, v.next)
             els == Append(acc, [k |-> << >>, v |-> v.val])
         IN IF e > Len(s) THEN PFail
            ELSE IF s[e] = "]" THEN POk(JVal("array", << >>, els), e + 1)
            ELSE IF s[e] = "," THEN ParseElements(s, e + 1, els)
            ELSE PFail

\* JSON.parse(s): ok is FALSE where JSON.parse throws SyntaxError.
JSONParse(s) ==
    LET v == ParseValue(s, 1) IN
    IF v.ok /\ SkipWS(s, v.next) = Len(s) + 1
    THEN [ok |-> TRUE, val |-> v.val]
    ELSE [ok |-> FALSE, val |-> JNull]

\* ------------------------------------------------------------------------
\* JSON.stringify(value, null, gap) for the values JSON.parse produces
\* ------------------------------------------------------------------------

JStr(cs) == JVal("string", cs, << >>)
JNum(cs) == JVal("number", cs, << >>)
JObj(m) == JVal("object", << >>, m)
Mem(k, v) == [k |-> k, v |-> v]

EscapeChar(c) ==
    CASE c = QUOTE -> <<BSLASH, QUOTE>>
      [] c = BSLASH -> <<BSLASH, BSLASH>>
      [] c = NL -> <<BSLASH, "n">>
      [] c = "\t" -> <<BSLASH, "t">>
      [] c = "\r" -> <<BSLASH, "r">>
      [] OTHER -> <<c>>

RECURSIVE QuoteBody(_)
QuoteBody(cs) ==
    IF cs = << >> THEN << >>
    ELSE IF Len(cs) = 1 THEN EscapeChar(cs[1])
    ELSE LET h == Len(cs) \div 2 IN
         QuoteBody(SubSeq(cs, 1, h)) \o QuoteBody(SubSeq(cs, h + 1, Len(cs)))

Quote(cs) == (<<QUOTE>> \o QuoteBody(cs)) \o <<QUOTE>>

\* The line break and indentation put before an item k columns deep; none
\* when there is no gap.
Break(gap, k) == IF gap = 0 THEN << >> ELSE <<NL>> \o [i \in 1..k |-> " "]

RECURSIVE Stringify(_, _, _)
RECURSIVE StringifyItems(_, _, _, _)

\* The text of v at indentation ind.  A number that is not finite is
\* written as null.
Stringify(v, gap, ind) ==
    CASE v.t = "null" -> <<"n", "u", "l", "l">>
      [] v.t = "boolean" -> v.s
      [] v.t = "string" -> Quote(v.s)
      [] v.t = "number" ->
           IF v.s \in {Infinity, <<"-">> \o Infinity}
           THEN <<"n", "u", "l", "l">> ELSE v.s
      [] v.t = "object" ->
           IF v.m = << >> THEN <<"{", "}">>
           ELSE <<"{">> \o Break(gap, ind + gap)
                \o StringifyItems(v, 1, gap, ind + gap)
                \o Break(gap, ind) \o <<"}">>
      [] v.t = "array" ->
           IF v.m = << >> THEN <<"[", "]">>
           ELSE <<"[">> \o Break(gap, ind + gap)
                \o StringifyItems(v, 1, gap, ind + gap)
                \o Break(gap, ind) \o <<"]">>

\* The items of the object or array v from the i-th on.
StringifyItems(v, i, gap, ind) ==
    LET item == IF v.t = "object"
                THEN Quote(v.m[i].k) \o <<":">>
                     \o (IF gap = 0 THEN << >> ELSE <<" ">>)
                     \o Stringify(v.m[i].v, gap, ind)
                ELSE Stringify(v.m[i].v, gap, ind)
    IN IF i = Len(v.m) THEN item
       ELSE item \o <<",">> \o Break(gap, ind)
            \o StringifyItems(v, i + 1, gap, ind)

\* ------------------------------------------------------------------------
\* Record decoding and line framing of streamOllama
\* ------------------------------------------------------------------------

KeyResponse == <<"r", "e", "s", "p", "o", "n", "s", "e">>

\* obj[key] for a parsed object: the value of the last member named key
\* (JSON.parse keeps the last duplicate); "undefined" when there is none.
RECURSIVE Property(_, _, _)
Property(m, key, i) ==
    IF i = 0 THEN JVal("undefined", << >>, << >>)
    ELSE IF m[i].k = key THEN m[i].v ELSE Property(m, key, i - 1)

\* LineWrites with a catch block that forwards the line it could not parse.
LineWritesEchoBad(line) ==
    LET p == JSONParse(line) IN
    IF ~p.ok THEN <<line>>
    ELSE IF p.val.t # "object" THEN << >>
    ELSE LET r == Property(p.val.m, KeyResponse, Len(p.val.m)) IN
         IF r.t = "string" THEN <<r.s>> ELSE << >>

\* LineWrites without the typeof test: any response member is written.
LineWritesAnyType(line) ==
    LET p == JSONParse(line) IN
    IF ~p.ok THEN << >>
    ELSE IF p.val.t # "object" THEN << >>
    ELSE LET r == Property(p.val.m, KeyResponse, Len(p.val.m)) IN
         IF r.t # "undefined" THEN <<r.s>> ELSE << >>

\* The try block run on one non-empty trimmed line: the writes it makes.
\* A SyntaxError of JSON.parse and the TypeError of reading a property of
\* null are both swallowed by the catch.
LineWrites(line) ==
    LET p == JSONParse(line) IN
    IF ~p.ok THEN << >>
    ELSE IF p.val.t = "null" THEN << >>
    ELSE IF p.val.t # "object" THEN << >>
    ELSE LET r == Property(p.val.m, KeyResponse, Len(p.val.m)) IN
         IF r.t = "string" THEN <<r.s>> ELSE << >>

\* Drain that forgets the partial line left after the last newline.
RECURSIVE DrainDropPartial(_, _, _)
DrainDropPartial(b, out, np) ==
    LET idx == IndexOf(b, NL) IN
    IF idx = 0 THEN [buf |-> << >>, out |-> out, np |-> np]
    ELSE LET line == Trim(Slice(b, 1, idx - 1))
             rest == Slice(b, idx + 1, Len(b))
         IN IF line = << >> THEN DrainDropPartial(rest, out, np)
            ELSE DrainDropPartial(rest, out \o LineWrites(line), np + 1)

\* Drain that puts the writes of a later line before those of earlier ones.
RECURSIVE DrainReversed(_, _, _)
DrainReversed(b, out, np) ==
    LET idx == IndexOf(b, NL) IN
    IF idx = 0 THEN [buf |-> b, out |-> out, np |-> np]
    ELSE LET line == Trim(Slice(b, 1, idx - 1))
             rest == Slice(b, idx + 1, Len(b))
         IN IF line = << >> THEN DrainReversed(rest, out, np)
            ELSE DrainReversed(rest, LineWrites(line) \o out, np + 1)

\* Drain with an if in place of the while: one line per chunk.
DrainOneLine(b, out, np) ==
    LET idx == IndexOf(b, NL) IN
    IF idx = 0 THEN [buf |-> b, out |-> out, np |-> np]
    ELSE LET line == Trim(Slice(b, 1, idx - 1))
             rest == Slice(b, idx + 1, Len(b))
         IN IF line = << >> THEN [buf |-> rest, out |-> out, np |-> np]
            ELSE [buf |-> rest, out |-> out \o LineWrites(line),
                  np |-> np + 1]

\* Drain without the test for an empty line: every line is parsed.
RECURSIVE DrainParseBlank(_, _, _)
DrainParseBlank(b, out, np) ==
    LET idx == IndexOf(b, NL) IN
    IF idx = 0 THEN [buf |-> b, out |-> out, np |-> np]
    ELSE LET line == Trim(Slice(b, 1, idx - 1))
             rest == Slice(b, idx + 1, Len(b))
         IN DrainParseBlank(rest, out \o LineWrites(line), np + 1)

\* Drain that stops at a record whose done member is true and drops what
\* follows it in the buffer.
RECURSIVE DrainStopAtDone(_, _, _)
DrainStopAtDone(b, out, np) ==
    LET idx == IndexOf(b, NL) IN
    IF idx = 0 THEN [buf |-> b, out |-> out, np |-> np]
    ELSE LET line == Trim(Slice(b, 1, idx - 1))
             rest == Slice(b, idx + 1, Len(b))
             p == JSONParse(line)
         IN IF line = << >> THEN DrainStopAtDone(rest, out, np)
            ELSE IF /\ p.ok /\ p.val.t = "object"
                    /\ Property(p.val.m, <<"d", "o", "n", "e">>,
                                Len(p.val.m)).t = "boolean"
                 THEN [buf |-> << >>, out |-> out \o LineWrites(line),
                       np |-> np + 1]
            ELSE DrainStopAtDone(rest, out \o LineWrites(line), np + 1)

\* Drain that does not cut the processed lines off the buffer.
RECURSIVE DrainNoSlice(_, _, _)
DrainNoSlice(b, out, np) ==
    LET idx == IndexOf(b, NL) IN
    IF idx = 0 THEN [buf |-> b, out |-> out, np |-> np]
    ELSE LET line == Trim(Slice(b, 1, idx - 1))
             rest == Slice(b, idx + 1, Len(b))
             r == IF line = << >> THEN DrainNoSlice(rest, out, np)
                  ELSE DrainNoSlice(rest, out \o LineWrites(line), np + 1)
         IN [buf |-> b, out |-> r.out, np |-> r.np]

\* The inner while loop: extracts every complete line of buf; returns the
\* remaining buffer, the writes made, in order, and the number of calls of
\* JSON.parse (np counts on from its argument).
RECURSIVE Drain(_, _, _)
Drain(b, out, np) ==
    LET idx == IndexOf(b, NL) IN
    IF idx = 0 THEN [buf |-> b, out |-> out, np |-> np]
    ELSE LET line == Trim(Slice(b, 1, idx - 1))
             rest == Slice(b, idx + 1, Len(b))
         IN IF line = << >> THEN Drain(rest, out, np)
            ELSE Drain(rest, out \o LineWrites(line), np + 1)

\* FinalWrites that leaves the remainder undecoded.
FinalWritesNone(b) == << >>

\* The block after the read loop: the writes made for the remainder.
FinalWrites(b) ==
    IF Trim(b) # << >> THEN LineWrites(Trim(b)) ELSE << >>

\* The block after the read loop: the number of calls of JSON.parse.
FinalParses(b) == IF Trim(b) # << >> THEN 1 ELSE 0

\* ------------------------------------------------------------------------
\* The downstream response: the calls made on res, in order
\* ------------------------------------------------------------------------

MsgStreamError == <<"Stream error: ">>
MsgOllamaError == <<"Ollama error: ">>

EvHead(st) == [op |-> "head", status |-> st, data |-> << >>]
EvWrite(d) == [op |-> "write", status |-> 0, data |-> d]
EvEnd(d) == [op |-> "end", status |-> 0, data |-> d]

RECURSIVE WriteEvents(_)
WriteEvents(fs) ==
    IF fs = << >> THEN << >> ELSE <<EvWrite(Head(fs))>> \o WriteEvents(Tail(fs))

HeadSent(sk) == \E i \in 1..Len(sk) : sk[i].op = "head"

\* res.writeHead(status): throws ERR_HTTP_HEADERS_SENT once a head was
\* written; threw tells whether it did.
WriteHead(sk, st) ==
    IF HeadSent(sk) THEN [sink |-> sk, threw |-> TRUE]
    ELSE [sink |-> Append(sk, EvHead(st)), threw |-> FALSE]

\* HandlerCatch that calls the upstream again instead of reporting the error.
HandlerCatchRetry(sk) ==
    IF HeadSent(sk) THEN [sink |-> sk, pc |-> "crashed"]
    ELSE [sink |-> sk, pc |-> "fetch"]

\* The catch block of the /chat-stream route: writeHead(500) then
\* end('Stream error: ...').  When writeHead throws, the exception leaves
\* the handler and end is not reached.
HandlerCatch(sk) ==
    LET h == WriteHead(sk, 500) IN
    IF h.threw THEN [sink |-> sk, pc |-> "crashed"]
    ELSE [sink |-> Append(h.sink, EvEnd(MsgStreamError)), pc |-> "done"]

\* UpstreamRejected without the call of res.end.
UpstreamRejectedNoEnd(sk) == WriteHead(sk, 500).sink

\* The branch taken when the upstream response is not ok or has no body:
\* writeHead(500) then end('Ollama error: ...').
UpstreamRejected(sk) ==
    Append(WriteHead(sk, 500).sink, EvEnd(MsgOllamaError))

\* FlushAndEnd that ends the response before flushing the remainder.
EndThenFlush(sk, b) ==
    Append(sk, EvEnd(<< >>)) \o WriteEvents(FinalWrites(b))

\* The end of streamOllama after the read loop: the remainder b of the
\* buffer is flushed, then res.end() is called.
FlushAndEnd(sk, b) ==
    (sk \o WriteEvents(FinalWrites(b))) \o <<EvEnd(<< >>)>>

\* ------------------------------------------------------------------------
\* Upstream bodies
\* ------------------------------------------------------------------------

Str(cs) == <<QUOTE>> \o cs \o <<QUOTE>>
ObjResponse(v) == <<"{">> \o Str(KeyResponse) \o <<":">> \o v \o <<"}">>
DoneTrue == Str(<<"d", "o", "n", "e">>) \o <<":", "t", "r", "u", "e">>

Line(src, kind, frag) == [src |-> src, kind |-> kind, frag |-> frag]

\* The lines an upstream body is made of: the bytes of the line (without
\* its newline), what the line is, and the fragment it carries.
LineTable ==
    << Line(ObjResponse(Str(<<"H", "i">>)), "frag", <<"H", "i">>),
       Line(<<"{">> \o Str(KeyResponse) \o <<":">> \o Str(<<" ", "t">>)
              \o <<",">> \o DoneTrue \o <<"}">>, "frag", <<" ", "t">>),
       Line(ObjResponse(Str(<<LeadByte, ContByte, BSLASH, "n">>)) \o <<"\r">>,
            "frag", <<EAcute, NL>>),
       Line(<<"n", "o", "t", "-", "j", "s", "o", "n">>, "bad", << >>),
       Line(<<"n", "u", "l", "l">>, "nostr", << >>),
       Line(<<"7">>, "nostr", << >>),
       Line(ObjResponse(<<"5">>), "nostr", << >>),
       Line(<<"{">> \o DoneTrue \o <<"}">>, "nostr", << >>),
       Line(<<" ">>, "blank", << >>),
       Line(ObjResponse(Str(<<"a">>)) \o <<LeadByte>>, "cut", <<"a">>) >>

\* The last line of the table is cut in the middle of a character: the
\* decoder never sees the rest of it when the line ends the body.
CutLineId == Len(LineTable)

LineIds == 1..(CutLineId - 1)

\* Lines for bodies of arbitrary bytes: a fragment, not JSON, blank, cut.
ByteLineIds == {1, 4, 9, CutLineId}

RECURSIVE SeqsUpTo(_, _)
SeqsUpTo(S, n) ==
    IF n = 0 THEN {<< >>}
    ELSE LET R == SeqsUpTo(S, n - 1) IN
         R \cup {Append(q, x) : q \in {r \in R : Len(r) = n - 1}, x \in S}

\* The bytes of the body made of the lines ls (indices into LineTable); the
\* last line carries a newline only when nl holds.
RECURSIVE BodyBytes(_, _)
BodyBytes(ls, nl) ==
    IF ls = << >> THEN << >>
    ELSE IF Len(ls) = 1
         THEN LineTable[ls[1]].src \o (IF nl THEN <<NL>> ELSE << >>)
    ELSE LineTable[ls[1]].src \o <<NL>> \o BodyBytes(Tail(ls), nl)

\* ------------------------------------------------------------------------
\* State
\* ------------------------------------------------------------------------

VARIABLES
    pc,        \* where the /chat-stream handler is suspended
    lines,     \* the lines of the upstream body
    lastNL,    \* whether the last line of the body ends in a newline
    upPos,     \* number of body bytes the reader has delivered
    buf,       \* streamOllama's text buffer
    pend,      \* bytes held back by the TextDecoder
    sink,      \* the calls made on res so far
    fetched,   \* outcome of the upstream fetch, "none" before it
    readFailed, \* whether reader.read() rejected
    split,     \* whether some chunk ended inside a line
    midChar,   \* whether some chunk ended inside a multi-byte character
    nparse,    \* number of calls of JSON.parse made by streamOllama
    nfetch,    \* number of upstream fetch calls that have settled
    clientGone, \* whether the downstream client has disconnected
    pc2,       \* a second /chat-stream request: where its handler is
    lines2,    \* the lines of its upstream body
    lastNL2,   \* whether the last line of that body ends in a newline
    upPos2,    \* number of bytes of that body delivered
    buf2,      \* the text buffer of its streamOllama call
    pend2,     \* bytes held back by its TextDecoder
    sink2,     \* the calls made on its res
    cfgFile,   \* config.json: whether it exists and its bytes
    cfg,       \* the module-level cfg
    cpc,       \* whether a POST /config handler awaits parseBody
    cbody,     \* the body of that POST /config (index into ConfigBodies)
    cres,      \* the calls made on res by the last /config request
    posted,    \* the body of the last POST /config answered with 200
    hist,      \* the last two /config requests answered, oldest first
    usersFile, \* users.json of server.js: missing, empty or a list of users
    sess,      \* req.session.userId of each client's session
    ureq,      \* the /api request each client has in flight
    ures,      \* the last response the /api routes sent, and to whom
    ulastw,    \* the writeUsers that settled last: who, for what, from what
    upool,     \* the clients that send requests and the inputs they use
    upReq      \* what the relay sent upstream: model, options and host

relayVars == <<pc, lines, lastNL, upPos, buf, pend, sink, fetched, readFailed,
               split, midChar, nparse, nfetch>>

req2Vars == <<pc2, lines2, lastNL2, upPos2, buf2, pend2, sink2>>

cfgVars == <<cfgFile, cfg, cpc, cbody, cres, posted, hist>>

userVars == <<usersFile, sess, ureq, ures, ulastw, upool>>

vars == <<relayVars, clientGone, req2Vars, cfgVars, userVars, upReq>>

\* Everything the /api routes of server.js leave alone.
chatVars == <<relayVars, clientGone, req2Vars, cfgVars, upReq>>

\* OtherBuf with one buffer shared by all calls of streamOllama.
OtherBufShared(mine, theirs) == theirs

\* The buffer of one streamOllama call after a step of another call that
\* left theirs in its own buffer: `let buf` is local to the call, so the
\* step of the other call does not touch it.
OtherBuf(mine, theirs) == mine

\* ------------------------------------------------------------------------
\* config.json, readConfig, writeConfig and the POST /config handler
\* ------------------------------------------------------------------------

KeyOllama == <<"o", "l", "l", "a", "m", "a">>
KeyServer == <<"s", "e", "r", "v", "e", "r">>

\* The object readConfig returns when config.json cannot be read or parsed.
DefaultConfig ==
    JObj(<< Mem(KeyOllama, JObj(<<
               Mem(<<"h", "o", "s", "t">>, JStr(
         <<"h", "t", "t", "p", ":", "/", "/", "1", "2", "7", ".", "0", ".",
         "0", ".", "1", ":", "1", "1", "4", "3", "4">>)),
               Mem(<<"m", "o", "d", "e", "l">>,
                   JStr(<<"l", "l", "a", "m", "a", "3">>)),
               Mem(<<"o", "p", "t", "i", "o", "n", "s">>, JObj(<<
                   Mem(<<"t", "e", "m", "p", "e", "r", "a", "t", "u", "r", "e">>,
                       JNum(<<"0", ".", "3">>)),
                   Mem(<<"t", "o", "p", "_", "p">>, JNum(<<"0", ".", "9">>)) >>)) >>)),
           Mem(KeyServer, JObj(<<
               Mem(<<"p", "o", "r", "t">>, JNum(<<"3", "0", "0", "0">>)) >>)) >>)

\* The bytes of a text written with encoding 'utf-8'.
RECURSIVE Utf8Encode(_)
Utf8Encode(cs) ==
    IF cs = << >> THEN << >>
    ELSE IF Len(cs) = 1
         THEN IF cs[1] = EAcute THEN <<LeadByte, ContByte>> ELSE cs
    ELSE LET h == Len(cs) \div 2 IN
         Utf8Encode(SubSeq(cs, 1, h)) \o Utf8Encode(SubSeq(cs, h + 1, Len(cs)))

\* The text of a file read whole with encoding 'utf-8': a lead byte at the
\* end of the file has nothing to wait for and decodes to U+FFFD.
ReadFile(bs) ==
    LET d == Utf8Decode(<< >>, bs) IN
    d.text \o (IF d.pend # << >> THEN <<Replacement>> ELSE << >>)

NoFile == [exists |-> FALSE, bytes |-> << >>]
File(bs) == [exists |-> TRUE, bytes |-> bs]

\* ReadConfig without the catch: whatever the parse made of the file.
ReadConfigNoCatch(file) == JSONParse(ReadFile(file.bytes)).val

\* readConfig(): the parsed file, or the defaults when readFileSync or
\* JSON.parse throws.
ReadConfig(file) ==
    IF ~file.exists THEN DefaultConfig
    ELSE LET p == JSONParse(ReadFile(file.bytes)) IN
         IF p.ok THEN p.val ELSE DefaultConfig

\* writeConfig(newConfig): the file after writeFileSync.
WriteConfig(v) == File(Utf8Encode(Stringify(v, 2, 0)))

\* v[key] of a parsed value that is not null.
Member(v, key) ==
    IF v.t = "object" THEN Property(v.m, key, Len(v.m))
    ELSE JVal("undefined", << >>, << >>)

\* ToBoolean
Truthy(v) ==
    CASE v.t \in {"undefined", "null"} -> FALSE
      [] v.t = "boolean" -> v.s = <<"t", "r", "u", "e">>
      [] v.t = "number" -> v.s # <<"0">>
      [] v.t = "string" -> v.s # << >>
      [] OTHER -> TRUE

MsgNotJson == <<"Body is not valid JSON">>
MsgMissing == <<"Config is missing fields">>
MsgNullBody == <<"Cannot read properties of null (reading 'ollama')">>
KeyError == <<"e", "r", "r", "o", "r">>

\* parseBody once the request has ended: an empty body resolves to {},
\* a body JSON.parse rejects makes the promise reject.
ParseBodyData(data) ==
    IF data = << >> THEN [ok |-> TRUE, val |-> JObj(<< >>)] ELSE JSONParse(data)

\* What the catch block of POST /config does with the message msg.
ConfigRejected(file, c, msg) ==
    [file |-> file, cfg |-> c, ok |-> FALSE, val |-> JNull,
     res |-> <<EvHead(400),
               EvEnd(Stringify(JObj(<<Mem(KeyError, JStr(msg))>>), 0, 0))>>]

ConfigAccepted(file, c, v) ==
    [file |-> file, cfg |-> c, ok |-> TRUE, val |-> v,
     res |-> <<EvHead(200),
               EvEnd(Stringify(JObj(<<Mem(<<"o", "k">>,
                        JVal("boolean", <<"t", "r", "u", "e">>, << >>))>>), 0, 0))>>]

\* PostConfigResult that keeps the cfg it had instead of reading the file
\* back.
PostConfigNoReread(file, c, data) ==
    LET p == ParseBodyData(data) IN
    IF ~p.ok THEN ConfigRejected(file, c, MsgNotJson)
    ELSE IF p.val.t = "null" THEN ConfigRejected(file, c, MsgNullBody)
    ELSE IF ~Truthy(Member(p.val, KeyOllama)) \/ ~Truthy(Member(p.val, KeyServer))
         THEN ConfigRejected(file, c, MsgMissing)
    ELSE ConfigAccepted(WriteConfig(p.val), c, p.val)

\* PostConfigResult that writes the body before it checks its shape.
PostConfigWriteFirst(file, c, data) ==
    LET p == ParseBodyData(data) IN
    IF ~p.ok THEN ConfigRejected(file, c, MsgNotJson)
    ELSE IF p.val.t = "null" THEN ConfigRejected(file, c, MsgNullBody)
    ELSE LET f == WriteConfig(p.val) IN
         IF ~Truthy(Member(p.val, KeyOllama)) \/ ~Truthy(Member(p.val, KeyServer))
         THEN ConfigRejected(f, ReadConfig(f), MsgMissing)
         ELSE ConfigAccepted(f, ReadConfig(f), p.val)

\* The POST /config handler after parseBody settled on the body data,
\* with config.json being file and cfg being c: the file and cfg it
\* leaves and the calls it makes on res.  Reading a property of null
\* throws a TypeError, which the catch block reports like the others.
PostConfigResult(file, c, data) ==
    LET p == ParseBodyData(data) IN
    IF ~p.ok THEN ConfigRejected(file, c, MsgNotJson)
    ELSE IF p.val.t = "null" THEN ConfigRejected(file, c, MsgNullBody)
    ELSE IF ~Truthy(Member(p.val, KeyOllama)) \/ ~Truthy(Member(p.val, KeyServer))
         THEN ConfigRejected(file, c, MsgMissing)
    ELSE LET f == WriteConfig(p.val) IN ConfigAccepted(f, ReadConfig(f), p.val)

ConfigBody(src, kind) == [src |-> src, kind |-> kind]

\* The bodies posted to /config and what each is: "ok" has both fields,
\* "notjson" is not valid JSON, "lacks" has no ollama or no server field,
\* "falsy" has both but one of them is null.
ConfigBodies ==
    << ConfigBody(<<"{", QUOTE, "o", "l", "l", "a", "m", "a", QUOTE, ":",
                  "{", QUOTE, "m", "o", "d", "e", "l", QUOTE, ":", QUOTE,
                  "m", QUOTE, "}", ",", QUOTE, "s", "e", "r", "v", "e", "r",
                  QUOTE, ":", "{", QUOTE, "p", "o", "r", "t", QUOTE, ":",
                  "3", "0", "0", "0", "}", "}">>, "ok"),
       ConfigBody(<<"{", " ", QUOTE, "s", "e", "r", "v", "e", "r", QUOTE,
                  ":", "{", QUOTE, "p", "o", "r", "t", QUOTE, ":", "8", ".",
                  "5", "0", "e", "1", "}", ",", QUOTE, "o", "l", "l", "a",
                  "m", "a", QUOTE, ":", "{", QUOTE, "m", QUOTE, ":", QUOTE,
                  EAcute, BSLASH, "n", QUOTE, ",", QUOTE, "t", QUOTE, ":",
                  "[", "0", ".", "3", ",", "t", "r", "u", "e", "]", "}", " ", "}">>, "ok"),
       ConfigBody(<<"{", QUOTE, "o", "l", "l", "a", "m", "a", QUOTE, ":",
                  "{", QUOTE, "t", QUOTE, ":", "1", "e", "9", "9", "9", "}",
                  ",", QUOTE, "s", "e", "r", "v", "e", "r", QUOTE, ":", "{",
                  QUOTE, "p", QUOTE, ":", "-", "0", ".", "5", "}", "}">>, "ok"),
       ConfigBody(<<"{", QUOTE, "o", "l", "l", "a", "m", "a", QUOTE, ":",
                  "t", "r", "u", "e", ",", QUOTE, "s", "e", "r", "v", "e",
                  "r", QUOTE, ":", QUOTE, "x", QUOTE, ",", QUOTE, "o", "l",
                  "l", "a", "m", "a", QUOTE, ":", "7", "}">>, "ok"),
       ConfigBody(<<"{", QUOTE, "o", "l", "l", "a", "m", "a", QUOTE, ":",
                  "{", "}", ",", QUOTE, "s", "e", "r", "v", "e", "r", QUOTE,
                  ":">>, "notjson"),
       ConfigBody(<< >>, "lacks"),
       ConfigBody(<<"{", QUOTE, "o", "l", "l", "a", "m", "a", QUOTE, ":",
                  "{", QUOTE, "m", "o", "d", "e", "l", QUOTE, ":", QUOTE,
                  "m", QUOTE, "}", "}">>, "lacks"),
       ConfigBody(<<"{", QUOTE, "s", "e", "r", "v", "e", "r", QUOTE, ":",
                  "{", QUOTE, "p", "o", "r", "t", QUOTE, ":", "1", "}",
                  "}">>, "lacks"),
       ConfigBody(<<"n", "u", "l", "l">>, "lacks"),
       ConfigBody(<<"{", QUOTE, "o", "l", "l", "a", "m", "a", QUOTE, ":",
                  "{", "}", ",", QUOTE, "s", "e", "r", "v", "e", "r", QUOTE,
                  ":", "n", "u", "l", "l", "}">>, "falsy"),
       ConfigBody(<<"{", QUOTE, "o", "l", "l", "a", "m", "a", QUOTE, ":",
                  "{", QUOTE, "h", "o", "s", "t", QUOTE, ":", QUOTE, "h",
                  "t", "t", "p", ":", "/", "/", "o", QUOTE, ",", QUOTE, "m",
                  "o", "d", "e", "l", QUOTE, ":", QUOTE, "m", "2", QUOTE,
                  "}", ",", QUOTE, "s", "e", "r", "v", "e", "r", QUOTE, ":",
                  "{", "}", "}">>, "ok") >>

ConfigBodyIds == 1..Len(ConfigBodies)

\* config.json when the server starts: missing, not JSON, or a config
\* written by hand.
InitialFiles ==
    { NoFile,
      File(<<"{", LeadByte>>),
      File(Utf8Encode(<<"{", QUOTE, "o", "l", "l", "a", "m", "a", QUOTE,
                      ":", " ", "{", QUOTE, "m", "o", "d", "e", "l", QUOTE,
                      ":", " ", QUOTE, "q", QUOTE, "}", ",", NL, " ", QUOTE,
                      "s", "e", "r", "v", "e", "r", QUOTE, ":", " ", "{",
                      QUOTE, "p", "o", "r", "t", QUOTE, ":", " ", "8", "0",
                      "}", "}">>)) }

\* `let cfg = readConfig()` at start-up, no /config request made yet.
ConfigAtStart(file) ==
    /\ cfgFile = file
    /\ cfg = ReadConfig(file)
    /\ cpc = "idle"
    /\ cbody = 0
    /\ cres = << >>
    /\ posted = JVal("undefined", << >>, << >>)
    /\ hist = <<"none", "none">>

\* ------------------------------------------------------------------------
\* server.js: users.json, sessions and the /api routes
\* ------------------------------------------------------------------------

Clients == {1, 2}

\* req.session.userId of a session that is not signed in.
NoUser == << >>

MinPasswordLen == 6

\* A record of users.json; createdAt and updatedAt are timestamps that no
\* route reads, and are left out.
User(id, hash) == [userId |-> id, passwordHash |-> hash]

\* bcrypt.hash(password, SALT_ROUNDS) and bcrypt.compare(password, hash).
BcryptHash(pw) == <<"$2b$12$">> \o pw

BcryptCompareAny(pw, hash) == TRUE

BcryptCompare(pw, hash) == hash = BcryptHash(pw)

ToLowerChar(c) ==
    CASE c = "A" -> "a"
      [] c = "B" -> "b"
      [] OTHER -> c

\* s.toLowerCase()
ToLower(s) == [i \in 1..Len(s) |-> ToLowerChar(s[i])]

\* sanitizeId(id): String(id || "").trim(); a missing id is the empty text.
SanitizeId(raw) == Trim(raw)

\* SameId that compares the two ids as they are written.
SameIdExact(x, y) == x = y

\* u.userId.toLowerCase() === id.toLowerCase()
SameId(x, y) == ToLower(x) = ToLower(y)

\* users.findIndex(u => same id ignoring case), 1-based; 0 when none.
Find(users, id) ==
    LET hits == {i \in 1..Len(users) : SameId(users[i].userId, id)} IN
    IF hits = {} THEN 0 ELSE Min(hits)

\* FindExact that takes the first record whatever its userId.
FindExactFirst(users, sid) == IF users = << >> THEN 0 ELSE 1

\* users.findIndex(u => u.userId === req.session.userId)
FindExact(users, sid) ==
    LET hits == {i \in 1..Len(users) : users[i].userId = sid} IN
    IF hits = {} THEN 0 ELSE Min(hits)

\* users.splice(idx, 1)
Splice(users, idx) ==
    [i \in 1..(Len(users) - 1) |-> IF i < idx THEN users[i] ELSE users[i + 1]]

\* users.json is held as the value its text denotes: the file is missing,
\* empty (a writeFile has opened it and not yet written), or the text of
\* { users: [...] }.
NoUsersFile == [st |-> "missing", users |-> << >>]
EmptyUsersFile == [st |-> "empty", users |-> << >>]
UsersFile(us) == [st |-> "ok", users |-> us]

\* ensureUsersFile(): writes { users: [] } when the file cannot be accessed.
EnsureUsersFile(f) == IF f.st = "missing" THEN UsersFile(<< >>) ELSE f

\* readUsers(): the file it leaves and the array it returns; an empty
\* file is read as {} and yields no users.
ReadUsers(f) ==
    [file |-> EnsureUsersFile(f), users |-> EnsureUsersFile(f).users]

\* WriteUsers that keeps the records the file holds and adds the new ones.
WriteUsersMerged(f, us) ==
    UsersFile(f.users \o SelectSeq(us, LAMBDA u : Find(f.users, u.userId) = 0))

\* writeUsers(users): the file after writeFile, whatever it held.
WriteUsers(f, us) == UsersFile(us)

\* SignedIn that lets every session through.
SignedInAlways(s) == TRUE

\* if (req.session.userId)
SignedIn(s) == s # NoUser

Resp(status, msg, uid) == [status |-> status, msg |-> msg, userId |-> uid]

SentTo(c, r) ==
    [client |-> c, status |-> r.status, msg |-> r.msg, userId |-> r.userId]

NoResp == SentTo(0, Resp(0, "none", << >>))

\* raced: the other client's signup had read the same array and had not
\* yet written when this write settled; overwrote: this write is that other
\* signup's, settling after the write it raced with.
LastWrite(c, op, raced, overwrote) ==
    [who |-> c, op |-> op, raced |-> raced, overwrote |-> overwrote]

NoWrite == LastWrite(0, "none", FALSE, FALSE)

Request(op, step, id, pw, npw, snap) ==
    [op |-> op, pc |-> step, id |-> id, pw |-> pw, npw |-> npw, snap |-> snap,
     base |-> snap]

NoRequest == Request("none", "idle", << >>, << >>, << >>, << >>)

NoClients == [who |-> {}, overlap |-> FALSE, ids |-> {}, pws |-> {}]

\* The server has started, app.listen has run ensureUsersFile, and no /api
\* request has been made.
UsersAtStart(file, pool) ==
    /\ usersFile = EnsureUsersFile(file)
    /\ sess = [c \in Clients |-> NoUser]
    /\ ureq = [c \in Clients |-> NoRequest]
    /\ ures = NoResp
    /\ ulastw = NoWrite
    /\ upool = pool

\* ------------------------------------------------------------------------
\* streamOllama: what the upstream call takes from cfg
\* ------------------------------------------------------------------------

KeyHost == <<"h", "o", "s", "t">>
KeyModel == <<"m", "o", "d", "e", "l">>
KeyOptions == <<"o", "p", "t", "i", "o", "n", "s">>

\* new URL('/api/generate', host) accepts the host: URL parsing is reduced
\* to the host being a string that starts with http:// and names something.
HostOk(h) ==
    /\ h.t = "string"
    /\ Matches(h.s, 1, <<"h", "t", "t", "p", ":", "/", "/">>)
    /\ Len(h.s) > 7

\* Reading cfg.ollama.model and building the endpoint do not throw: cfg
\* has an ollama that is neither undefined nor null, with a usable host.
CanCall(c) ==
    /\ Member(c, KeyOllama).t \notin {"undefined", "null"}
    /\ HostOk(Member(Member(c, KeyOllama), KeyHost))

\* The body and endpoint built from cfg before the fetch is issued.
UpstreamCall(c) ==
    LET o == Member(c, KeyOllama) IN
    [model |-> Member(o, KeyModel),
     options |-> IF Truthy(Member(o, KeyOptions)) THEN Member(o, KeyOptions)
                 ELSE JObj(<< >>),
     host |-> Member(o, KeyHost)]

NoUpstreamCall == [model |-> JNull, options |-> JNull, host |-> JNull]

\* InFlight that reads cfg again for a call already made.
InFlightFollowsCfg(call, c) ==
    IF call = NoUpstreamCall \/ ~CanCall(c) THEN call ELSE UpstreamCall(c)

\* The call a relay in progress has made, once cfg has become c: the fetch
\* was issued with the values read before it and nothing reads cfg again.
InFlight(call, c) == call

Upstream == BodyBytes(lines, lastNL)

Init ==
    /\ pc = "body"
    /\ lines \in SeqsUpTo(LineIds, MaxLines)
    /\ lastNL \in BOOLEAN
    /\ (lines = << >> => lastNL)
    /\ upPos = 0
    /\ buf = << >>
    /\ pend = << >>
    /\ sink = << >>
    /\ fetched = "none"
    /\ readFailed = FALSE
    /\ split = FALSE
    /\ midChar = FALSE
    /\ nparse = 0
    /\ nfetch = 0
    /\ clientGone = FALSE
    /\ pc2 = "idle"
    /\ lines2 = << >>
    /\ lastNL2 = TRUE
    /\ upPos2 = 0
    /\ buf2 = << >>
    /\ pend2 = << >>
    /\ sink2 = << >>
    /\ ConfigAtStart(NoFile)
    /\ UsersAtStart(NoUsersFile, NoClients)
    /\ upReq = NoUpstreamCall

\* A request whose upstream body may end in the middle of a character.
InitBytes ==
    /\ pc = "body"
    /\ lines \in SeqsUpTo(ByteLineIds, MaxLines)
    /\ lastNL \in BOOLEAN
    /\ (lines = << >> => lastNL)
    /\ upPos = 0
    /\ buf = << >>
    /\ pend = << >>
    /\ sink = << >>
    /\ fetched = "none"
    /\ readFailed = FALSE
    /\ split = FALSE
    /\ midChar = FALSE
    /\ nparse = 0
    /\ nfetch = 0
    /\ clientGone = FALSE
    /\ pc2 = "idle"
    /\ lines2 = << >>
    /\ lastNL2 = TRUE
    /\ upPos2 = 0
    /\ buf2 = << >>
    /\ pend2 = << >>
    /\ sink2 = << >>
    /\ ConfigAtStart(NoFile)
    /\ UsersAtStart(NoUsersFile, NoClients)
    /\ upReq = NoUpstreamCall

\* The handler awaits parseBody and checks the prompt.
ParseBody ==
    /\ pc = "body"
    /\ \E outcome \in {"invalid", "noprompt", "prompt"} :
          IF outcome = "prompt" /\ CanCall(cfg)
          THEN /\ pc' = "fetch"
               /\ sink' = sink
               /\ upReq' = UpstreamCall(cfg)
          ELSE /\ pc' = HandlerCatch(sink).pc
               /\ sink' = HandlerCatch(sink).sink
               /\ upReq' = upReq
    /\ UNCHANGED <<lines, lastNL, upPos, buf, pend, fetched, readFailed, split,
                   midChar, nparse, nfetch, clientGone, req2Vars, cfgVars,
                   userVars>>

\* streamOllama up to the read loop: the fetch settles.
Fetch ==
    /\ pc = "fetch"
    /\ \E outcome \in {"ok", "notok", "nobody", "reject"} :
          /\ fetched' = outcome
          /\ nfetch' = nfetch + 1
          /\ CASE outcome = "reject" ->
                    /\ pc' = HandlerCatch(sink).pc
                    /\ sink' = HandlerCatch(sink).sink
               [] outcome \in {"notok", "nobody"} ->
                    /\ pc' = "done"
                    /\ sink' = UpstreamRejected(sink)
               [] outcome = "ok" ->
                    /\ pc' = "read"
                    /\ sink' = WriteHead(sink, 200).sink
    /\ UNCHANGED <<lines, lastNL, upPos, buf, pend, readFailed, split, midChar,
                   nparse, clientGone, req2Vars, cfgVars, userVars, upReq>>

\* The sizes the next chunk may have once pos bytes of up were delivered:
\* up to MaxChunk bytes, or any number of whole lines, or all the rest.
ChunkSizes(up, pos) ==
    {n \in 1..(Len(up) - pos) :
        n <= MaxChunk \/ up[pos + n] = NL \/ pos + n = Len(up)}

\* reader.read() resolves with a chunk; the chunk is decoded, appended to
\* the buffer and every complete line is processed.
ReadChunk ==
    /\ pc = "read"
    /\ LET up == Upstream IN
       \E n \in ChunkSizes(up, upPos) :
          LET chunk == SubSeq(up, upPos + 1, upPos + n)
              dec == Utf8Decode(pend, chunk)
              d == Drain(buf \o dec.text, << >>, nparse)
          IN /\ upPos' = upPos + n
             /\ pend' = dec.pend
             /\ buf' = d.buf
             /\ sink' = sink \o WriteEvents(d.out)
             /\ split' = (split \/ up[upPos + n] # NL)
             /\ midChar' = (midChar \/ dec.pend # << >>)
             /\ nparse' = d.np
             /\ buf2' = OtherBuf(buf2, d.buf)
    /\ UNCHANGED <<pc, lines, lastNL, fetched, readFailed, nfetch, clientGone,
                   pc2, lines2, lastNL2, upPos2, pend2, sink2, cfgVars, userVars, upReq>>

\* reader.read() resolves with done: the remainder is flushed and the
\* response is ended.
ReadDone ==
    /\ pc = "read"
    /\ upPos = Len(Upstream)
    /\ sink' = FlushAndEnd(sink, buf)
    /\ nparse' = nparse + FinalParses(buf)
    /\ pc' = "done"
    /\ UNCHANGED <<lines, lastNL, upPos, buf, pend, fetched, readFailed, split,
                   midChar, nfetch, clientGone, req2Vars, cfgVars, userVars, upReq>>

\* reader.read() rejects: the exception leaves streamOllama and reaches the
\* catch block of the route.
ReadFail ==
    /\ pc = "read"
    /\ readFailed' = TRUE
    /\ pc' = HandlerCatch(sink).pc
    /\ sink' = HandlerCatch(sink).sink
    /\ UNCHANGED <<lines, lastNL, upPos, buf, pend, fetched, split, midChar,
                   nparse, nfetch, clientGone, req2Vars, cfgVars, userVars, upReq>>

Next == ParseBody \/ Fetch \/ ReadChunk \/ ReadDone \/ ReadFail

Spec == Init /\ [][Next]_vars

\* The relay over bodies of arbitrary bytes.
SpecBytes == InitBytes /\ [][Next]_vars

\* The downstream client closes its connection while the relay is running.
\* streamOllama registers no listener on req or res and writes to a closed
\* response are dropped without an exception, so nothing else changes.
ClientDisconnect ==
    /\ pc = "read"
    /\ ~clientGone
    /\ clientGone' = TRUE
    /\ UNCHANGED <<relayVars, req2Vars, cfgVars, userVars, upReq>>

NextCancel == Next \/ ClientDisconnect

\* The relay with a client that may disconnect.
SpecCancel == Init /\ [][NextCancel]_vars

\* A pending reader.read() eventually settles (it rejects, or resolves with
\* a chunk or with done), and the event loop then resumes streamOllama.
FairSpec == Spec /\ WF_vars(ReadFail \/ ReadChunk \/ ReadDone)

\* ------------------------------------------------------------------------
\* Two /chat-stream requests in flight at once
\* ------------------------------------------------------------------------

\* The upstream bodies of the two requests.
PairBodies == {<<1>>, <<6, 3>>}

Upstream2 == BodyBytes(lines2, lastNL2)

InitTwo ==
    /\ pc = "body"
    /\ lines \in PairBodies
    /\ lastNL \in BOOLEAN
    /\ upPos = 0
    /\ buf = << >>
    /\ pend = << >>
    /\ sink = << >>
    /\ fetched = "none"
    /\ readFailed = FALSE
    /\ split = FALSE
    /\ midChar = FALSE
    /\ nparse = 0
    /\ nfetch = 0
    /\ clientGone = FALSE
    /\ pc2 = "body"
    /\ lines2 \in PairBodies
    /\ lastNL2 \in BOOLEAN
    /\ upPos2 = 0
    /\ buf2 = << >>
    /\ pend2 = << >>
    /\ sink2 = << >>
    /\ ConfigAtStart(NoFile)
    /\ UsersAtStart(NoUsersFile, NoClients)
    /\ upReq = NoUpstreamCall

\* The handler of the second request awaits parseBody and checks the prompt.
ParseBody2 ==
    /\ pc2 = "body"
    /\ \E outcome \in {"invalid", "noprompt", "prompt"} :
          IF outcome = "prompt"
          THEN /\ pc2' = "fetch"
               /\ sink2' = sink2
          ELSE /\ pc2' = HandlerCatch(sink2).pc
               /\ sink2' = HandlerCatch(sink2).sink
    /\ UNCHANGED <<relayVars, clientGone, lines2, lastNL2, upPos2, buf2, pend2,
                   cfgVars, userVars, upReq>>

\* The fetch of the second request settles.
Fetch2 ==
    /\ pc2 = "fetch"
    /\ \E outcome \in {"ok", "notok", "nobody", "reject"} :
          CASE outcome = "reject" ->
                 /\ pc2' = HandlerCatch(sink2).pc
                 /\ sink2' = HandlerCatch(sink2).sink
            [] outcome \in {"notok", "nobody"} ->
                 /\ pc2' = "done"
                 /\ sink2' = UpstreamRejected(sink2)
            [] outcome = "ok" ->
                 /\ pc2' = "read"
                 /\ sink2' = WriteHead(sink2, 200).sink
    /\ UNCHANGED <<relayVars, clientGone, lines2, lastNL2, upPos2, buf2, pend2,
                   cfgVars, userVars, upReq>>

\* A read of the second request resolves with a chunk.
ReadChunk2 ==
    /\ pc2 = "read"
    /\ LET up == Upstream2 IN
       \E n \in ChunkSizes(up, upPos2) :
          LET chunk == SubSeq(up, upPos2 + 1, upPos2 + n)
              dec == Utf8Decode(pend2, chunk)
              d == Drain(buf2 \o dec.text, << >>, 0)
          IN /\ upPos2' = upPos2 + n
             /\ pend2' = dec.pend
             /\ buf2' = d.buf
             /\ sink2' = sink2 \o WriteEvents(d.out)
             /\ buf' = OtherBuf(buf, d.buf)
    /\ UNCHANGED <<pc, lines, lastNL, upPos, pend, sink, fetched, readFailed,
                   split, midChar, nparse, nfetch, clientGone, pc2, lines2,
                   lastNL2, cfgVars, userVars, upReq>>

\* A read of the second request resolves with done.
ReadDone2 ==
    /\ pc2 = "read"
    /\ upPos2 = Len(Upstream2)
    /\ sink2' = FlushAndEnd(sink2, buf2)
    /\ pc2' = "done"
    /\ UNCHANGED <<relayVars, clientGone, lines2, lastNL2, upPos2, buf2, pend2,
                   cfgVars, userVars, upReq>>

\* A read of the second request rejects.
ReadFail2 ==
    /\ pc2 = "read"
    /\ pc2' = HandlerCatch(sink2).pc
    /\ sink2' = HandlerCatch(sink2).sink
    /\ UNCHANGED <<relayVars, clientGone, lines2, lastNL2, upPos2, buf2, pend2,
                   cfgVars, userVars, upReq>>

NextTwo ==
    \/ Next
    \/ ParseBody2 \/ Fetch2 \/ ReadChunk2 \/ ReadDone2 \/ ReadFail2

\* Two requests whose steps interleave in any order.
SpecTwo == InitTwo /\ [][NextTwo]_vars

\* ------------------------------------------------------------------------
\* The /config routes
\* ------------------------------------------------------------------------

InitConfig ==
    /\ pc = "idle"
    /\ lines = << >>
    /\ lastNL = TRUE
    /\ upPos = 0
    /\ buf = << >>
    /\ pend = << >>
    /\ sink = << >>
    /\ fetched = "none"
    /\ readFailed = FALSE
    /\ split = FALSE
    /\ midChar = FALSE
    /\ nparse = 0
    /\ nfetch = 0
    /\ clientGone = FALSE
    /\ pc2 = "idle"
    /\ lines2 = << >>
    /\ lastNL2 = TRUE
    /\ upPos2 = 0
    /\ buf2 = << >>
    /\ pend2 = << >>
    /\ sink2 = << >>
    /\ \E file \in InitialFiles : ConfigAtStart(file)
    /\ UsersAtStart(NoUsersFile, NoClients)
    /\ upReq = NoUpstreamCall

\* GET /config: re-reads the file into cfg and answers with its text.
GetConfig ==
    /\ cfg' = ReadConfig(cfgFile)
    /\ cres' = <<EvHead(200), EvEnd(Stringify(cfg', 0, 0))>>
    /\ hist' = <<hist[2], "get">>
    /\ upReq' = InFlight(upReq, cfg')
    /\ UNCHANGED <<relayVars, clientGone, req2Vars, cfgFile, cpc, cbody, posted,
                   userVars>>

\* The bodies a POST /config may carry: any of the table, and beside a
\* /chat-stream request its first and its last, two accepted configurations
\* of which the last names a host.
PostedBodyIds ==
    IF pc = "idle" THEN ConfigBodyIds ELSE {1, Len(ConfigBodies)}

\* A POST /config arrives and its handler awaits parseBody.
PostArrive ==
    /\ cpc = "idle"
    /\ \E b \in PostedBodyIds : cbody' = b
    /\ cpc' = "post"
    /\ UNCHANGED <<relayVars, clientGone, req2Vars, cfgFile, cfg, cres, posted,
                   hist, userVars, upReq>>

\* parseBody settles and the handler runs to its end.
PostConfig ==
    /\ cpc = "post"
    /\ LET r == PostConfigResult(cfgFile, cfg, ConfigBodies[cbody].src) IN
          /\ cfgFile' = r.file
          /\ cfg' = r.cfg
          /\ cres' = r.res
          /\ posted' = IF r.ok THEN r.val ELSE posted
          /\ hist' = <<hist[2], IF r.ok THEN "post200" ELSE "post400">>
    /\ cpc' = "idle"
    /\ upReq' = InFlight(upReq, cfg')
    /\ UNCHANGED <<relayVars, clientGone, req2Vars, cbody, userVars>>

NextConfig == GetConfig \/ PostArrive \/ PostConfig

SpecConfig == InitConfig /\ [][NextConfig]_vars

\* One /chat-stream request while /config requests come and go; the
\* upstream body is empty, so that the relay waits in its first read until
\* the upstream ends or fails.
ChatBodies == {<< >>}

InitChat ==
    /\ pc = "body"
    /\ lines \in ChatBodies
    /\ lastNL = TRUE
    /\ upPos = 0
    /\ buf = << >>
    /\ pend = << >>
    /\ sink = << >>
    /\ fetched = "none"
    /\ readFailed = FALSE
    /\ split = FALSE
    /\ midChar = FALSE
    /\ nparse = 0
    /\ nfetch = 0
    /\ clientGone = FALSE
    /\ pc2 = "idle"
    /\ lines2 = << >>
    /\ lastNL2 = TRUE
    /\ upPos2 = 0
    /\ buf2 = << >>
    /\ pend2 = << >>
    /\ sink2 = << >>
    /\ ConfigAtStart(NoFile)
    /\ UsersAtStart(NoUsersFile, NoClients)
    /\ upReq = NoUpstreamCall

NextChat == ParseBody \/ Fetch \/ ReadDone \/ ReadFail \/ NextConfig

SpecChat == InitChat /\ [][NextChat]_vars

\* ------------------------------------------------------------------------
\* server.js: the /api routes, one action per step between two awaits
\* ------------------------------------------------------------------------

PwMissing == << >>
PwShort == <<"p", "w">>
PwOne == <<"s", "e", "c", "r", "e", "t", "1">>
PwTwo == <<"s", "e", "c", "r", "e", "t", "2">>

IdMissing == << >>
IdLower == <<"a">>
IdUpper == <<"A">>
IdPadded == <<" ", "b">>

\* users.json when the server starts: missing, no users, one user.
InitialUsersFiles ==
    {NoUsersFile, UsersFile(<< >>),
     UsersFile(<<User(IdLower, BcryptHash(PwOne))>>)}

\* Two browsers whose requests overlap.
RacingClients ==
    {[who |-> Clients, overlap |-> TRUE, ids |-> {IdLower, IdPadded},
      pws |-> {PwOne}],
     [who |-> Clients, overlap |-> TRUE, ids |-> {IdLower, IdUpper},
      pws |-> {PwOne}],
     [who |-> Clients, overlap |-> TRUE, ids |-> {IdUpper},
      pws |-> {PwOne}]}

\* One browser, each request answered before the next one is sent.
SerialClients ==
    {[who |-> {1}, overlap |-> FALSE,
      ids |-> {IdMissing, IdLower, IdUpper, IdPadded},
      pws |-> {PwMissing, PwShort, PwOne, PwTwo}],
     [who |-> {1}, overlap |-> FALSE, ids |-> {IdUpper},
      pws |-> {PwOne, PwTwo}]}

InitUsers ==
    /\ pc = "idle" /\ lines = << >> /\ lastNL = FALSE /\ upPos = 0
    /\ buf = << >> /\ pend = << >> /\ sink = << >> /\ fetched = FALSE
    /\ readFailed = FALSE /\ split = FALSE /\ midChar = FALSE
    /\ nparse = 0 /\ nfetch = 0 /\ clientGone = FALSE
    /\ pc2 = "idle" /\ lines2 = << >> /\ lastNL2 = FALSE /\ upPos2 = 0
    /\ buf2 = << >> /\ pend2 = << >> /\ sink2 = << >>
    /\ ConfigAtStart(NoFile)
    /\ \E file \in InitialUsersFiles, pool \in RacingClients :
         UsersAtStart(file, pool)
    /\ upReq = NoUpstreamCall

InitSerial ==
    /\ pc = "idle" /\ lines = << >> /\ lastNL = FALSE /\ upPos = 0
    /\ buf = << >> /\ pend = << >> /\ sink = << >> /\ fetched = FALSE
    /\ readFailed = FALSE /\ split = FALSE /\ midChar = FALSE
    /\ nparse = 0 /\ nfetch = 0 /\ clientGone = FALSE
    /\ pc2 = "idle" /\ lines2 = << >> /\ lastNL2 = FALSE /\ upPos2 = 0
    /\ buf2 = << >> /\ pend2 = << >> /\ sink2 = << >>
    /\ ConfigAtStart(NoFile)
    /\ \E file \in InitialUsersFiles, pool \in SerialClients :
         UsersAtStart(file, pool)
    /\ upReq = NoUpstreamCall

\* A client may send a request when it has none in flight and, for
\* clients that wait for each answer, when no other request is in flight.
MaySend(c) ==
    /\ c \in upool.who
    /\ ureq[c] = NoRequest
    /\ upool.overlap \/ \A d \in Clients : ureq[d] = NoRequest

\* res.status(..).json(..): the request is answered and leaves the server.
Answer(c, r) ==
    /\ ures' = SentTo(c, r)
    /\ ureq' = [ureq EXCEPT ![c] = NoRequest]

\* The handler suspends at an await with its local variables.
Suspend(c, r) ==
    /\ ureq' = [ureq EXCEPT ![c] = r]
    /\ UNCHANGED ures

\* GET /api/me
Me(c) ==
    /\ MaySend(c)
    /\ IF SignedIn(sess[c])
       THEN Answer(c, Resp(200, "signedIn:true", sess[c]))
       ELSE Answer(c, Resp(200, "signedIn:false", << >>))
    /\ UNCHANGED <<chatVars, usersFile, sess,
                   ulastw, upool>>

\* POST /api/signout
Signout(c) ==
    /\ MaySend(c)
    /\ sess' = [sess EXCEPT ![c] = NoUser]
    /\ Answer(c, Resp(200, "Signed out", << >>))
    /\ UNCHANGED <<chatVars, usersFile, ulastw,
                   upool>>

\* POST /api/signup up to its first await.
StartSignup(c) ==
    /\ MaySend(c)
    /\ \E raw \in upool.ids, pw \in upool.pws :
         LET id == SanitizeId(raw) IN
         IF id = << >> \/ pw = PwMissing \/ Len(pw) < MinPasswordLen
         THEN Answer(c, Resp(400, "Invalid input", << >>))
         ELSE Suspend(c, Request("signup", "reading", id, pw, << >>, << >>))
    /\ UNCHANGED <<chatVars, usersFile, sess,
                   ulastw, upool>>

\* POST /api/signin up to its first await.
StartSignin(c) ==
    /\ MaySend(c)
    /\ \E raw \in upool.ids, pw \in upool.pws :
         LET id == SanitizeId(raw) IN
         IF id = << >> \/ pw = PwMissing
         THEN Answer(c, Resp(400, "Missing credentials", << >>))
         ELSE Suspend(c, Request("signin", "reading", id, pw, << >>, << >>))
    /\ UNCHANGED <<chatVars, usersFile, sess,
                   ulastw, upool>>

\* POST /api/change-password up to its first await.
StartChangePassword(c) ==
    /\ MaySend(c)
    /\ \E cur \in upool.pws, new \in upool.pws :
         IF ~SignedIn(sess[c])
         THEN Answer(c, Resp(401, "Not signed in", << >>))
         ELSE IF cur = PwMissing \/ new = PwMissing \/ Len(new) < MinPasswordLen
         THEN Answer(c, Resp(400, "Invalid input", << >>))
         ELSE Suspend(c, Request("change", "reading", sess[c], cur, new, << >>))
    /\ UNCHANGED <<chatVars, usersFile, sess,
                   ulastw, upool>>

\* POST /api/delete-account up to its first await.
StartDeleteAccount(c) ==
    /\ MaySend(c)
    /\ \E pw \in upool.pws :
         IF ~SignedIn(sess[c])
         THEN Answer(c, Resp(401, "Not signed in", << >>))
         ELSE IF pw = PwMissing
         THEN Answer(c, Resp(400, "Password required", << >>))
         ELSE Suspend(c, Request("delete", "reading", sess[c], pw, << >>, << >>))
    /\ UNCHANGED <<chatVars, usersFile, sess,
                   ulastw, upool>>

\* POST /api/travel-plan up to the await of askOllama.
StartTravelPlan(c) ==
    /\ MaySend(c)
    /\ \E complete \in BOOLEAN :
         IF ~SignedIn(sess[c])
         THEN Answer(c, Resp(401, "Not signed in", << >>))
         ELSE IF ~complete
         THEN Answer(c, Resp(400, "Missing trip information", << >>))
         ELSE Suspend(c, Request("travel", "asking", sess[c], << >>, << >>, << >>))
    /\ UNCHANGED <<chatVars, usersFile, sess,
                   ulastw, upool>>

\* await readUsers() settles: the handler looks its user up in the array.
ReadUsersDone(c) ==
    /\ ureq[c].pc = "reading"
    /\ LET r == ReadUsers(usersFile)
           q == ureq[c]
           idx == IF q.op \in {"signup", "signin"}
                  THEN Find(r.users, q.id)
                  ELSE FindExact(r.users, sess[c])
       IN
       /\ usersFile' = r.file
       /\ CASE q.op = "signup" /\ idx # 0 ->
                 Answer(c, Resp(409, "User already exists", << >>))
            [] q.op = "signin" /\ idx = 0 ->
                 Answer(c, Resp(401, "Invalid user or password", << >>))
            [] q.op \in {"change", "delete"} /\ idx = 0 ->
                 Answer(c, Resp(401, "Not signed in", << >>))
            [] OTHER ->
                 Suspend(c, Request(q.op, "crypto", q.id, q.pw, q.npw, r.users))
    /\ UNCHANGED <<chatVars, sess, ulastw, upool>>

\* await bcrypt.hash / bcrypt.compare settles.
BcryptDone(c) ==
    /\ ureq[c].pc = "crypto"
    /\ LET q == ureq[c]
           idx == IF q.op = "signin" THEN Find(q.snap, q.id)
                  ELSE FindExact(q.snap, sess[c])
           ok == BcryptCompare(q.pw, q.snap[idx].passwordHash)
           writing(us) == [q EXCEPT !.pc = "writing", !.snap = us]
       IN
       CASE q.op = "signup" ->
              /\ Suspend(c, writing(Append(q.snap,
                                 User(q.id, BcryptHash(q.pw)))))
              /\ UNCHANGED sess
         [] q.op = "signin" /\ ok ->
              /\ sess' = [sess EXCEPT ![c] = q.snap[idx].userId]
              /\ Answer(c, Resp(200, "Signed in", q.snap[idx].userId))
         [] q.op = "signin" /\ ~ok ->
              /\ Answer(c, Resp(401, "Invalid user or password", << >>))
              /\ UNCHANGED sess
         [] q.op = "change" /\ ok ->
              /\ Suspend(c, writing([q.snap EXCEPT ![idx] =
                                 User(q.snap[idx].userId, BcryptHash(q.npw))]))
              /\ UNCHANGED sess
         [] q.op = "change" /\ ~ok ->
              /\ Answer(c, Resp(401, "Current password incorrect", << >>))
              /\ UNCHANGED sess
         [] q.op = "delete" /\ ok ->
              /\ Suspend(c, writing(Splice(q.snap, idx)))
              /\ UNCHANGED sess
         [] q.op = "delete" /\ ~ok ->
              /\ Answer(c, Resp(401, "Password incorrect", << >>))
              /\ UNCHANGED sess
    /\ UNCHANGED <<chatVars, usersFile, ulastw,
                   upool>>

\* Another client's signup has read the array this request read and has
\* not written yet.
ReadSameArray(c) ==
    \E d \in Clients \ {c} :
        /\ ureq[d].op = "signup"
        /\ ureq[d].pc \in {"crypto", "writing"}
        /\ ureq[d].base = ureq[c].base

\* The last write is a signup's that settled while this request, having
\* read the same array, had not written yet.
WroteMeanwhile(c) == ulastw.raced /\ ulastw.who # c

\* fs.writeFile has opened users.json and written nothing yet.
WriteUsersOpen(c) ==
    /\ ureq[c].pc = "writing"
    /\ usersFile.st = "ok"
    /\ usersFile' = EmptyUsersFile
    /\ UNCHANGED <<chatVars, sess, ureq, ures,
                   ulastw, upool>>

\* await writeUsers(users) settles and the handler answers.
WriteUsersDone(c) ==
    /\ ureq[c].pc = "writing"
    /\ LET q == ureq[c] IN
       /\ usersFile' = WriteUsers(usersFile, q.snap)
       /\ ulastw' = LastWrite(c, q.op, q.op = "signup" /\ ReadSameArray(c),
                              q.op = "signup" /\ WroteMeanwhile(c))
       /\ sess' = IF q.op = "delete" THEN [sess EXCEPT ![c] = NoUser] ELSE sess
       /\ Answer(c, Resp(200, CASE q.op = "signup" -> "Sign up successful"
                                [] q.op = "change" -> "Password updated"
                                [] q.op = "delete" -> "Account deleted",
                         << >>))
    /\ UNCHANGED <<chatVars, upool>>

\* await askOllama(prompt) settles or throws.
AskOllamaDone(c) ==
    /\ ureq[c].pc = "asking"
    /\ \E ok \in BOOLEAN :
         IF ok THEN Answer(c, Resp(200, "plan", << >>))
         ELSE Answer(c, Resp(500, "Ollama error", << >>))
    /\ UNCHANGED <<chatVars, usersFile, sess,
                   ulastw, upool>>

NextUsers ==
    \E c \in Clients :
        \/ Me(c)
        \/ Signout(c)
        \/ StartSignup(c)
        \/ StartSignin(c)
        \/ StartChangePassword(c)
        \/ StartDeleteAccount(c)
        \/ StartTravelPlan(c)
        \/ ReadUsersDone(c)
        \/ BcryptDone(c)
        \/ WriteUsersOpen(c)
        \/ WriteUsersDone(c)
        \/ AskOllamaDone(c)

\* The routes that read users.json, with requests that overlap.
NextRace ==
    \E c \in Clients :
        \/ StartSignup(c)
        \/ StartSignin(c)
        \/ StartChangePassword(c)
        \/ StartDeleteAccount(c)
        \/ ReadUsersDone(c)
        \/ BcryptDone(c)
        \/ WriteUsersOpen(c)
        \/ WriteUsersDone(c)

SpecUsers == InitUsers /\ [][NextRace]_vars

SpecSerial == InitSerial /\ [][NextUsers]_vars


\* ------------------------------------------------------------------------
\* What the upstream body is expected to yield
\* ------------------------------------------------------------------------

Kind(i) == LineTable[lines[i]].kind

\* The fragments carried by the lines ls, in line order.
RECURSIVE FragsOf(_)
FragsOf(ls) ==
    IF ls = << >> THEN << >>
    ELSE (IF LineTable[Head(ls)].kind = "frag"
          THEN <<LineTable[Head(ls)].frag>> ELSE << >>) \o FragsOf(Tail(ls))

\* Number of lines of the body that end in a newline.
NTerminated == IF lastNL THEN Len(lines) ELSE Len(lines) - 1

\* Number of body bytes up to and including the newline of line k.
LineEnd(k) == Len(BodyBytes(SubSeq(lines, 1, k), TRUE))

\* Number of lines whose newline is among the first pos bytes.
Completed(pos) == Cardinality({k \in 1..NTerminated : LineEnd(k) <= pos})

\* The data of the res.write calls made so far.
Written ==
    LET w == SelectSeq(sink, LAMBDA e : e.op = "write") IN
    [i \in 1..Len(w) |-> w[i].data]

Ended == \E i \in 1..Len(sink) : sink[i].op = "end"

IsPrefix(a, b) == Len(a) <= Len(b) /\ a = SubSeq(b, 1, Len(a))

\* streamOllama returned after a clean end of the upstream body.
CleanDone == pc = "done" /\ fetched = "ok"

\* The calls made on res by a relay that wrote the fragments fs and ended.
Relayed(fs) == (<<EvHead(200)>> \o WriteEvents(fs)) \o <<EvEnd(<< >>)>>

AllFrag == \A i \in 1..Len(lines) : Kind(i) = "frag"

\* ------------------------------------------------------------------------
\* Claims
\* ------------------------------------------------------------------------

\* C1: when the body is N newline-terminated lines that each carry a string
\* response, the relay writes exactly those N strings in line order and
\* then ends the response, whatever the chunking was.
C1_ExactFragments ==
    (CleanDone /\ lastNL /\ AllFrag) => sink = Relayed(FragsOf(lines))

C1_Witness ==
    /\ CleanDone /\ lastNL /\ AllFrag /\ split
    /\ Len(lines) = 2 /\ lines[1] # lines[2]
    /\ Len(Written) = 2

\* C2: a non-blank last line without a newline is not written while the
\* relay still waits for data, and after end-of-stream it is decoded once:
\* its fragment is the last write, made before the response is ended.
TailCase == lines # << >> /\ ~lastNL /\ Kind(Len(lines)) # "blank"

C2_TailAfterEos ==
    (TailCase /\ fetched = "ok") =>
        /\ pc = "read" =>
              Written = FragsOf(SubSeq(lines, 1, Completed(upPos)))
        /\ pc = "done" => sink = Relayed(FragsOf(lines))

C2_Witness ==
    /\ TailCase /\ CleanDone /\ Kind(Len(lines)) = "frag"
    /\ Len(lines) = 2
    /\ Written[Len(Written)] = LineTable[lines[2]].frag

C2_WitnessPending ==
    /\ TailCase /\ pc = "read" /\ Kind(Len(lines)) = "frag"
    /\ upPos = Len(Upstream)

\* C3: a line that is not valid JSON makes no write and no error, and the
\* fragments of the lines after it are still written.
HasKind(k) == \E i \in 1..Len(lines) : Kind(i) = k

C3_BadLineSkipped ==
    (HasKind("bad") /\ fetched = "ok" /\ ~readFailed) =>
        /\ pc \in {"read", "done"}
        /\ sink[1] = EvHead(200)
        /\ \A i \in 2..Len(sink) : sink[i].op # "head"
        /\ pc = "read" => Written = FragsOf(SubSeq(lines, 1, Completed(upPos)))
        /\ pc = "done" => sink = Relayed(FragsOf(lines))

C3_Witness ==
    /\ CleanDone /\ Len(lines) = 2
    /\ Kind(1) = "bad" /\ Kind(2) = "frag"
    /\ Written = <<LineTable[lines[2]].frag>>

\* C4: a line that is valid JSON without a string response (field absent,
\* field not a string, value null or a number) makes no write and no
\* error, and the relay goes on with the following lines.
C4_NoStringSkipped ==
    (HasKind("nostr") /\ fetched = "ok" /\ ~readFailed) =>
        /\ pc \in {"read", "done"}
        /\ \A i \in 1..Len(sink) : sink[i].status # 500
        /\ Len(Written) <= Cardinality({i \in 1..Len(lines) : Kind(i) = "frag"})
        /\ pc = "done" => Written = FragsOf(lines) /\ Ended

C4_Witness ==
    /\ CleanDone /\ Len(lines) = 2
    /\ Kind(1) = "nostr" /\ Kind(2) = "frag"
    /\ Written = <<LineTable[lines[2]].frag>>

\* C5: res.end is called at most once and nothing is written after it; a
\* relay that saw the clean end of the body has flushed the last line and
\* ended the response; and a relay waiting for data eventually ends the
\* response unless the upstream read fails.
EndIsLast == \A i \in 1..Len(sink) : sink[i].op = "end" => i = Len(sink)

C5_EndOnceAfterFlush ==
    /\ [](EndIsLast /\ (CleanDone => Ended /\ Written = FragsOf(lines)))
    /\ (pc = "read") ~> (Ended \/ readFailed)

C5_Witness ==
    /\ CleanDone /\ ~lastNL /\ Len(lines) = 2
    /\ Kind(2) = "frag"
    /\ sink[Len(sink)] = EvEnd(<< >>)
    /\ sink[Len(sink) - 1] = EvWrite(LineTable[lines[2]].frag)

\* C6: after reader.read() rejected, the relay has stopped reading, the
\* response is ended, and only the fragments of complete lines were
\* written.
C6_EndedAfterReadFailure ==
    readFailed =>
        /\ Ended
        /\ Written = FragsOf(SubSeq(lines, 1, Completed(upPos)))

\* C7: after reader.read() rejected, the handler has finished as after a
\* clean end: the response is ended with no text, and no error status or
\* error text was produced.
C7_FailureLikeCleanEnd ==
    readFailed =>
        /\ pc = "done"
        /\ sink[Len(sink)] = EvEnd(<< >>)
        /\ \A i \in 1..Len(sink) :
              sink[i].status # 500 /\ sink[i].data # MsgStreamError

\* C8: when the upstream response is not ok or has no body, nothing is read
\* from it and nothing is decoded: the response is status 500 followed by
\* one 'Ollama error: ' text that ends it.
C8_UpstreamRejected ==
    fetched \in {"notok", "nobody"} =>
        /\ pc = "done"
        /\ sink = <<EvHead(500), EvEnd(MsgOllamaError)>>
        /\ upPos = 0 /\ buf = << >>

C8_Witness ==
    /\ fetched = "nobody" /\ pc = "done"
    /\ lines # << >> /\ Kind(1) = "frag"
    /\ Len(sink) = 2

\* C9: whatever the body and however the request ends, the fragments are
\* written in line order, each once: the writes are always a prefix of the
\* fragments of the lines in body order.
C9_LineOrder == IsPrefix(Written, FragsOf(lines))

C9_Witness ==
    /\ pc = "read" /\ Len(lines) = 2 /\ lastNL
    /\ Kind(1) = "frag" /\ Kind(2) = "frag" /\ lines[1] # lines[2]
    /\ upPos = Len(Upstream) /\ ~split
    /\ Len(Written) = 2

\* C10: whenever the relay waits for the next chunk, the fragment of every
\* line completed by the chunks received so far has been written.
C10_WrittenBeforeNextRead ==
    (pc = "read") => Written = FragsOf(SubSeq(lines, 1, Completed(upPos)))

C10_Witness ==
    /\ pc = "read" /\ Len(lines) = 2
    /\ Kind(1) = "frag" /\ Kind(2) = "frag"
    /\ Completed(upPos) = 1 /\ upPos > LineEnd(1)
    /\ buf # << >> /\ Len(Written) = 1

\* C11: once the client has disconnected, the relay does not go back to
\* waiting for upstream data: the step it takes next leaves the read loop.
C11_StopsOnDisconnect ==
    [][(clientGone /\ pc = "read") => pc' # "read"]_vars

\* C13: a line that is blank after trimming is never handed to JSON.parse
\* and makes no write, inside the stream and as the remainder at the end;
\* the lines around it yield their fragments as usual.
NonBlank(ls) == Cardinality({i \in 1..Len(ls) : LineTable[ls[i]].kind # "blank"})

C13_BlankIgnored ==
    (HasKind("blank") /\ fetched = "ok") =>
        /\ pc = "read" =>
              /\ nparse = NonBlank(SubSeq(lines, 1, Completed(upPos)))
              /\ Written = FragsOf(SubSeq(lines, 1, Completed(upPos)))
        /\ pc = "done" =>
              /\ nparse = NonBlank(lines)
              /\ sink = Relayed(FragsOf(lines))

C13_Witness ==
    /\ CleanDone /\ Len(lines) = 2 /\ ~lastNL
    /\ Kind(1) = "frag" /\ Kind(2) = "blank"
    /\ nparse = 1 /\ Len(Written) = 1

\* C14: a two-byte character whose bytes arrive in two chunks is decoded as
\* that character: no U+FFFD reaches the buffer or a fragment, and the
\* fragments written are those of the body's lines.
HasReplacement(t) == \E i \in 1..Len(t) : t[i] = Replacement

C14_SplitCharDecoded ==
    (fetched = "ok") =>
        /\ ~HasReplacement(buf)
        /\ \A i \in 1..Len(Written) : ~HasReplacement(Written[i])
        /\ (midChar /\ pc = "done") => sink = Relayed(FragsOf(lines))

C14_Witness ==
    /\ CleanDone /\ midChar /\ lines = <<3>>
    /\ Written = << <<EAcute, NL>> >>

\* C15: a record with done:true does not end the relay: while the relay
\* waits for data the response is not ended and the fragments of all
\* completed lines are written, the response is ended only when the whole
\* body was read, and then every fragment of the body was written.
IsDoneLine(id) ==
    \E k \in 1..Len(LineTable[id].src) : Matches(LineTable[id].src, k, DoneTrue)

HasDoneLine == \E i \in 1..Len(lines) : IsDoneLine(lines[i])

C15_DoneIgnored ==
    (HasDoneLine /\ fetched = "ok") =>
        /\ pc = "read" =>
              /\ ~Ended
              /\ Written = FragsOf(SubSeq(lines, 1, Completed(upPos)))
        /\ Ended => upPos = Len(Upstream)
        /\ pc = "done" => sink = Relayed(FragsOf(lines))

C15_Witness ==
    /\ CleanDone /\ Len(lines) = 2
    /\ IsDoneLine(lines[1]) /\ Kind(1) = "frag" /\ Kind(2) = "frag"
    /\ ~IsDoneLine(lines[2])
    /\ Len(Written) = 2

\* C16: one request calls the upstream at most once: no second fetch after
\* a rejected fetch, a rejected upstream, a bad line or a failed read.
C16_NoRetry ==
    /\ nfetch <= 1
    /\ fetched # "none" => nfetch = 1
    /\ pc \in {"body", "fetch"} => nfetch = 0

C16_Witness ==
    /\ readFailed /\ nfetch = 1 /\ upPos > 0
    /\ HasKind("bad")

\* C19: whenever the relay waits for the next chunk, the buffer holds no
\* newline and is exactly the decoded text received after the last newline
\* received, so it is no longer than the line being received.
AfterLastNL(t) ==
    LET hits == {i \in 1..Len(t) : t[i] = NL} IN
    IF hits = {} THEN t ELSE Slice(t, Max(hits) + 1, Len(t))

C19_BufferIsPartialLine ==
    (pc = "read") =>
        /\ IndexOf(buf, NL) = 0
        /\ buf = AfterLastNL(Utf8Decode(<< >>, SubSeq(Upstream, 1, upPos)).text)
        /\ Completed(upPos) < Len(lines) =>
              Len(buf) <= Len(LineTable[lines[Completed(upPos) + 1]].src)
        /\ Completed(upPos) = Len(lines) => buf = << >>

C19_Witness ==
    /\ pc = "read" /\ Len(lines) = 2 /\ lines[2] = 3
    /\ Completed(upPos) = 1 /\ pend = <<LeadByte>>
    /\ buf # << >>

\* C12: two /chat-stream requests whose reads interleave in any order do
\* not disturb each other: at every read boundary each request's buffer is
\* the partial line of its own upstream, the writes to each response are
\* the fragments of the lines completed on its own upstream, and a request
\* that saw the clean end of its body has written exactly the fragments of
\* its own body, as it does when it runs alone.
CompletedIn(ls, nl, pos) ==
    Cardinality({k \in 1..(IF nl THEN Len(ls) ELSE Len(ls) - 1) :
                    Len(BodyBytes(SubSeq(ls, 1, k), TRUE)) <= pos})

WrittenIn(sk) ==
    LET w == SelectSeq(sk, LAMBDA e : e.op = "write") IN
    [i \in 1..Len(w) |-> w[i].data]

OwnAtRead(ls, nl, pos, b, sk) ==
    /\ b = AfterLastNL(Utf8Decode(<< >>, SubSeq(BodyBytes(ls, nl), 1, pos)).text)
    /\ sk = <<EvHead(200)>> \o
            WriteEvents(FragsOf(SubSeq(ls, 1, CompletedIn(ls, nl, pos))))

C12_Independent ==
    /\ pc = "read" => OwnAtRead(lines, lastNL, upPos, buf, sink)
    /\ pc2 = "read" => OwnAtRead(lines2, lastNL2, upPos2, buf2, sink2)
    /\ CleanDone => sink = Relayed(FragsOf(lines))
    /\ (pc2 = "done" /\ sink2[1] = EvHead(200)) =>
          sink2 = Relayed(FragsOf(lines2))

C12_Witness ==
    /\ pc = "read" /\ pc2 = "read"
    /\ lines = <<1>> /\ lines2 = <<6, 3>>
    /\ buf # << >> /\ buf2 # << >> /\ pend2 = <<LeadByte>>
    /\ CompletedIn(lines2, lastNL2, upPos2) = 1

C12_WitnessBothDone ==
    /\ CleanDone /\ pc2 = "done"
    /\ lines = <<6, 3>> /\ lines2 = <<1>>
    /\ WrittenIn(sink) = <<LineTable[3].frag>>
    /\ WrittenIn(sink2) = <<LineTable[1].frag>>

\* C17 as stated: after any GET /config and successful POST /config
\* requests cfg is the parsed content of config.json, and a GET /config
\* that follows a successful POST /config returns exactly the posted
\* object.
ParsedFile == JSONParse(ReadFile(cfgFile.bytes))

GetAfterPost == hist = <<"post200", "get">>

Returned == JSONParse(cres[2].data)

C17_CfgIsParsedFile ==
    /\ cfgFile.exists /\ ParsedFile.ok /\ cfg = ParsedFile.val
    /\ GetAfterPost => Returned = [ok |-> TRUE, val |-> posted]

\* v with every number that is not finite replaced by null.
RECURSIVE NullNonFinite(_)
NullNonFinite(v) ==
    IF v.t = "number"
    THEN IF v.s \in {Infinity, <<"-">> \o Infinity} THEN JNull ELSE v
    ELSE IF v.t \in {"object", "array"}
         THEN [v EXCEPT !.m = [i \in 1..Len(v.m) |->
                                 [k |-> v.m[i].k, v |-> NullNonFinite(v.m[i].v)]]]
    ELSE v

\* C17, amended: cfg is what readConfig yields for the current
\* config.json, that is its parsed content, or the built-in defaults when
\* the file is missing or is not valid JSON; and a GET /config that
\* follows a successful POST /config returns the posted object with every
\* number that overflowed to Infinity replaced by null, which is the
\* posted object itself when it holds no such number.
C17_CfgIsReadConfig ==
    /\ cfg = (IF cfgFile.exists /\ ParsedFile.ok
              THEN ParsedFile.val ELSE DefaultConfig)
    /\ GetAfterPost =>
          /\ cres[1] = EvHead(200)
          /\ Returned = [ok |-> TRUE, val |-> NullNonFinite(posted)]
          /\ cfg = NullNonFinite(posted)

C17_Witness ==
    /\ GetAfterPost /\ cpc = "idle" /\ cbody = 2
    /\ Returned = [ok |-> TRUE, val |-> posted]
    /\ Member(Member(posted, KeyOllama), <<"m">>) = JStr(<<EAcute, NL>>)
    /\ Member(Member(cfg, KeyServer), <<"p", "o", "r", "t">>) = JNum(<<"8", "5">>)

C17_WitnessOverflow ==
    /\ GetAfterPost /\ cpc = "idle" /\ cbody = 3
    /\ Member(Member(posted, KeyOllama), <<"t">>) = JNum(Infinity)
    /\ Member(Member(Returned.val, KeyOllama), <<"t">>) = JNull

\* C18: a POST /config whose body is not valid JSON or lacks the ollama
\* or the server field is answered with status 400 and an error message,
\* and leaves config.json and cfg as they were.
ErrorAnswer(res) ==
    /\ Len(res) = 2
    /\ res[1] = EvHead(400)
    /\ res[2].op = "end"
    /\ LET b == JSONParse(res[2].data) IN
          /\ b.ok
          /\ Member(b.val, KeyError).t = "string"
          /\ Member(b.val, KeyError).s # << >>

C18_BadPostRejected ==
    [][(cpc = "post" /\ cpc' = "idle"
          /\ ConfigBodies[cbody].kind \in {"notjson", "lacks"})
        => (ErrorAnswer(cres') /\ cfgFile' = cfgFile /\ cfg' = cfg)]_vars

C18_Witness ==
    /\ cpc = "idle" /\ hist = <<"post200", "post400">>
    /\ ConfigBodies[cbody].kind = "lacks" /\ ConfigBodies[cbody].src # << >>
    /\ ErrorAnswer(cres)
    /\ cfg = posted /\ cfgFile = WriteConfig(posted)

C18_WitnessNotJson ==
    /\ cpc = "idle" /\ hist[2] = "post400"
    /\ ConfigBodies[cbody].kind = "notjson"
    /\ cres[2].data = Stringify(JObj(<<Mem(KeyError, JStr(MsgNotJson))>>), 0, 0)
    /\ ~cfgFile.exists /\ cfg = DefaultConfig

\* C20: every request is answered with one response head and one end of
\* the response, whatever the body and the upstream do, a read failure
\* after streaming has begun included.
Count(sk, op) == Cardinality({i \in 1..Len(sk) : sk[i].op = op})

C20_OneHeadOneEnd ==
    (pc \in {"done", "crashed"}) =>
        /\ Count(sink, "head") = 1
        /\ Count(sink, "end") = 1
        /\ sink[1].op = "head"
        /\ sink[Len(sink)].op = "end"

\* ------------------------------------------------------------------------
\* server.js: users, sessions
\* ------------------------------------------------------------------------

SignupOk == Resp(200, "Sign up successful", << >>)

\* C21: two overlapping /api/signup requests that both read users.json
\* before either writes it are both answered ok, and each write leaves in the
\* file the array that request read plus its own new user only, so that after
\* the second write the first writer's user is gone.
C21_LastWriterWins ==
    [][\A c \in Clients :
         (ureq[c].op = "signup" /\ WriteUsersDone(c)) =>
             /\ ures' = SentTo(c, SignupOk)
             /\ (ReadSameArray(c) \/ WroteMeanwhile(c)) =>
                    /\ usersFile'.st = "ok"
                    /\ usersFile'.users =
                         Append(ureq[c].base,
                                User(ureq[c].id, BcryptHash(ureq[c].pw)))]_vars

\* Both signups, for a and for b, have written; the file holds one of them.
C21_Witness ==
    /\ ulastw.op = "signup" /\ ulastw.overwrote
    /\ ures.status = 200
    /\ upool.ids = {IdLower, IdPadded}
    /\ Len(usersFile.users) = 1
    /\ usersFile.users[1].userId \in {<<"a">>, <<"b">>}

\* No two records of the array have userIds that are equal ignoring case.
NoDuplicate(users) ==
    \A i, j \in 1..Len(users) :
        ToLower(users[i].userId) = ToLower(users[j].userId) => i = j

\* The array holds a record whose userId equals id ignoring case.
Present(users, id) ==
    \E i \in 1..Len(users) : ToLower(users[i].userId) = ToLower(id)

UserExists == Resp(409, "User already exists", << >>)

\* C25: whatever the interleaving of signup, change-password and
\* delete-account requests, users.json never holds two records whose userIds
\* are equal ignoring case, and a signup whose id is already in the file,
\* ignoring case, is answered 409 and leaves the file as it was.
C25_NoDuplicateIds ==
    [][/\ NoDuplicate(usersFile.users)
       /\ NoDuplicate(usersFile'.users)
       /\ \A c \in Clients :
            (/\ ureq[c].op = "signup"
             /\ ReadUsersDone(c)
             /\ Present(usersFile.users, ureq[c].id)) =>
                /\ ures' = SentTo(c, UserExists)
                /\ usersFile' = usersFile]_vars

\* A signup for A has been answered 409 while the file holds user a.
C25_Witness ==
    /\ upool.ids = {IdUpper}
    /\ ures.status = 409
    /\ usersFile = UsersFile(<<User(IdLower, BcryptHash(PwOne))>>)

\* Signups for a and for A have raced and both have written.
C25_WitnessRace ==
    /\ upool.ids = {IdLower, IdUpper}
    /\ ulastw.op = "signup" /\ ulastw.overwrote
    /\ Len(usersFile.users) = 1

NotSignedIn == Resp(401, "Not signed in", << >>)

\* C26: a change-password, delete-account or travel-plan request whose
\* session has no userId is answered 401 'Not signed in' at once: the request
\* does not go on to read users.json or to call the model, the file and every
\* session stay as they were.
C26_NoSessionRejected ==
    [][\A c \in Clients :
         (/\ sess[c] = NoUser
          /\ StartChangePassword(c) \/ StartDeleteAccount(c)
                \/ StartTravelPlan(c)) =>
             /\ ures' = SentTo(c, NotSignedIn)
             /\ ureq'[c] = NoRequest
             /\ usersFile' = usersFile
             /\ sess' = sess]_vars

\* A client that never signed in has been answered 401 'Not signed in'.
C26_Witness ==
    /\ ures.status = 401 /\ ures.msg = "Not signed in"
    /\ ures.client \in Clients
    /\ sess[ures.client] = NoUser
    /\ ulastw = NoWrite

\* The record of the file that a signin with this id and password verifies
\* against: its userId equals id ignoring case and its hash is the
\* password's.
Verified(id, pw) ==
    {i \in 1..Len(usersFile.users) :
        /\ ToLower(usersFile.users[i].userId) = ToLower(id)
        /\ usersFile.users[i].passwordHash = BcryptHash(pw)}

SigninStep(c) ==
    /\ StartSignin(c) \/ ReadUsersDone(c) \/ BcryptDone(c)
    /\ ureq[c].op = "signin" \/ StartSignin(c)

\* C27: a session's userId is set only by a signin, and only to the stored
\* userId of a record of users.json that was found ignoring case and whose
\* hash verified the password; a signin answered 400 or 401 leaves sessions
\* and file as they were; /api/me reports signedIn:true, with the session's
\* userId, exactly when the session has one.
C27_SessionSetBySignin ==
    [][\A c \in Clients :
         /\ (sess'[c] # sess[c] /\ sess'[c] # NoUser) =>
               /\ ureq[c].op = "signin" /\ BcryptDone(c)
               /\ \E i \in Verified(ureq[c].id, ureq[c].pw) :
                     sess'[c] = usersFile.users[i].userId
               /\ ures' = SentTo(c, Resp(200, "Signed in", sess'[c]))
         /\ (SigninStep(c) /\ ures'.status \in {400, 401}) =>
               sess' = sess /\ usersFile' = usersFile
         /\ Me(c) =>
               /\ ures'.client = c /\ ures'.status = 200
               /\ ures'.msg = "signedIn:true" <=> sess[c] # NoUser
               /\ ures'.msg = "signedIn:false" <=> sess[c] = NoUser
               /\ ures'.userId = sess[c]
               /\ sess' = sess /\ usersFile' = usersFile]_vars

\* A signin as A has been answered ok and the session holds the stored id a.
C27_Witness ==
    /\ upool.ids = {IdUpper}
    /\ ures = SentTo(1, Resp(200, "Signed in", IdLower))
    /\ sess[1] = IdLower

\* A signin has been answered 401 for a wrong password.
C27_WitnessRejected ==
    /\ upool.ids = {IdUpper}
    /\ ures = SentTo(1, Resp(401, "Invalid user or password", << >>))
    /\ sess[1] = NoUser
    /\ usersFile = UsersFile(<<User(IdLower, BcryptHash(PwOne))>>)

\* /api/me has reported signedIn:true.
C27_WitnessMe ==
    /\ ures = SentTo(1, Resp(200, "signedIn:true", IdLower))
    /\ sess[1] = IdLower

AccountDeleted == Resp(200, "Account deleted", << >>)

\* The records other than the one whose userId is sid.
Others(users, sid) == SelectSeq(users, LAMBDA u : u.userId # sid)

\* The password is the one of the record whose userId is sid.
RightPassword(sid, pw) ==
    \E i \in 1..Len(usersFile.users) :
        /\ usersFile.users[i].userId = sid
        /\ usersFile.users[i].passwordHash = BcryptHash(pw)

\* C28: with no other request in flight, a delete-account that succeeds
\* writes the users that users.json held when the request read it, less
\* exactly the record whose userId is the session's, and destroys the
\* session, so that the /api/me that follows reports signedIn:false; with a
\* missing password it is answered 400, with a wrong one 401, file and
\* session as they were.
C28_DeleteRemovesOwnRecord ==
    [][\A c \in Clients :
         /\ (ureq[c].op = "delete" /\ ReadUsersDone(c)) =>
               /\ usersFile' = usersFile
               /\ ureq'[c].op = "delete" => ureq'[c].base = usersFile.users
         /\ (ureq[c].op = "delete" /\ WriteUsersDone(c)) =>
               /\ ures' = SentTo(c, AccountDeleted)
               /\ usersFile' = UsersFile(Others(ureq[c].base, sess[c]))
               /\ Len(usersFile'.users) = Len(ureq[c].base) - 1
               /\ sess' = [sess EXCEPT ![c] = NoUser]
         /\ (ures = SentTo(c, AccountDeleted) /\ Me(c)) =>
               ures' = SentTo(c, Resp(200, "signedIn:false", << >>))
         /\ (SignedIn(sess[c]) /\ StartDeleteAccount(c)) =>
               /\ sess' = sess /\ usersFile' = usersFile
               /\ \/ ures' = SentTo(c, Resp(400, "Password required", << >>))
                  \/ ureq'[c].pw # PwMissing /\ ures' = ures
         /\ (/\ ureq[c].op = "delete" /\ BcryptDone(c)
             /\ ~RightPassword(sess[c], ureq[c].pw)) =>
               /\ ures' = SentTo(c, Resp(401, "Password incorrect", << >>))
               /\ sess' = sess /\ usersFile' = usersFile]_vars

\* User b has deleted their account; user a's record is what is left.
C28_Witness ==
    /\ ures = SentTo(1, AccountDeleted)
    /\ sess[1] = NoUser
    /\ ulastw.op = "delete"
    /\ Len(usersFile.users) = 1
    /\ usersFile.users[1].userId = IdLower

\* A delete-account with a wrong password has been answered 401.
C28_WitnessWrongPassword ==
    /\ ures = SentTo(1, Resp(401, "Password incorrect", << >>))
    /\ sess[1] = IdLower
    /\ usersFile = UsersFile(<<User(IdLower, BcryptHash(PwOne))>>)

\* ------------------------------------------------------------------------
\* readConfig
\* ------------------------------------------------------------------------

\* The host, model and port of a configuration are the built-in defaults.
HasDefaults(c) ==
    /\ Member(Member(c, KeyOllama), <<"h", "o", "s", "t">>) =
         JStr(<<"h", "t", "t", "p", ":", "/", "/", "1", "2", "7", ".", "0",
                ".", "0", ".", "1", ":", "1", "1", "4", "3", "4">>)
    /\ Member(Member(c, KeyOllama), <<"m", "o", "d", "e", "l">>) =
         JStr(<<"l", "l", "a", "m", "a", "3">>)
    /\ Member(Member(c, KeyServer), <<"p", "o", "r", "t">>) =
         JNum(<<"3", "0", "0", "0">>)

\* C23: readConfig never fails and never modifies config.json: a GET
\* /config is always answered 200 with the configuration it read, which is
\* the built-in defaults when the file is missing or is not valid JSON and
\* the parsed content of the file otherwise.
C23_ReadConfigDefaults ==
    [][GetConfig =>
         /\ cfgFile' = cfgFile
         /\ cres'[1] = EvHead(200)
         /\ IF cfgFile.exists /\ ParsedFile.ok
            THEN cfg' = ParsedFile.val
            ELSE HasDefaults(cfg') /\ cfg' = DefaultConfig]_vars

\* A GET /config has read a config.json that ends in the middle of a
\* character and has been answered with the defaults.
C23_Witness ==
    /\ hist[2] = "get"
    /\ cfgFile = File(<<"{", LeadByte>>)
    /\ HasDefaults(cfg)

\* A GET /config has found no config.json.
C23_WitnessMissing ==
    /\ hist[2] = "get"
    /\ cfgFile = NoFile
    /\ HasDefaults(cfg)

\* A GET /config has returned the content of a valid config.json.
C23_WitnessParsed ==
    /\ hist[2] = "get"
    /\ cfgFile.exists /\ ParsedFile.ok /\ cfg = ParsedFile.val
    /\ Member(Member(cfg, KeyServer), <<"p", "o", "r", "t">>) = JNum(<<"8", "0">>)

\* ------------------------------------------------------------------------
\* The relay against a reference computed from the whole body
\* ------------------------------------------------------------------------

\* The text of the whole body decoded at once.
WholeText == ReadFile(Upstream)

\* The pieces of a text between its newlines, trimmed, blank ones dropped,
\* and of each piece that parses to an object with a string response, that
\* string.
RECURSIVE Reference(_)
Reference(t) ==
    LET nls == {i \in 1..Len(t) : t[i] = NL} IN
    IF nls = {}
    THEN IF Trim(t) = << >> THEN << >> ELSE LineWrites(Trim(t))
    ELSE LET n == Min(nls)
             piece == Trim(SubSeq(t, 1, n - 1))
         IN (IF piece = << >> THEN << >> ELSE LineWrites(piece))
              \o Reference(SubSeq(t, n + 1, Len(t)))

\* C24: whatever the bytes of the body and however they are split into
\* chunks, the fragments written are those of the reference: the whole
\* decoded text split on newline, each piece trimmed, blank pieces dropped,
\* the string response of each piece that parses to an object kept.
C24_MatchesReference == CleanDone => Written = Reference(WholeText)

\* ------------------------------------------------------------------------
\* The relay and /config
\* ------------------------------------------------------------------------

\* The model, options and host that cfg holds.
Held(c) ==
    [model |-> Member(Member(c, KeyOllama), KeyModel),
     options |-> Member(Member(c, KeyOllama), KeyOptions),
     host |-> Member(Member(c, KeyOllama), KeyHost)]

\* C22: the model, options and host of an upstream call are read from cfg
\* in one step, so all three are those of the cfg of that moment; /config
\* requests that arrive while the relay is in progress, and the relay's own
\* later steps, leave what was sent upstream as it was.
C22_CallFromOneConfig ==
    [][/\ (pc = "body" /\ pc' = "fetch") =>
            /\ upReq'.model = Held(cfg).model
            /\ upReq'.host = Held(cfg).host
            /\ upReq'.options = (IF Truthy(Held(cfg).options)
                                   THEN Held(cfg).options ELSE JObj(<< >>))
            /\ cfg' = cfg
       /\ pc # "body" => upReq' = upReq
       /\ cfg' # cfg => relayVars' = relayVars]_vars

\* The relay is reading the body of a call made with the default model
\* while a POST /config has since replaced cfg.
C22_Witness ==
    /\ pc = "read" /\ sink = <<EvHead(200)>>
    /\ hist[2] = "post200"
    /\ upReq.model = JStr(<<"l", "l", "a", "m", "a", "3">>)
    /\ Held(cfg).model = JStr(<<"m", "2">>)

\* The call was made after a POST /config and carries the posted model.
C22_WitnessAfter ==
    /\ pc = "read"
    /\ upReq.model = JStr(<<"m", "2">>)
    /\ upReq.host = JStr(<<"h", "t", "t", "p", ":", "/", "/", "o">>)
    /\ upReq.options = JObj(<< >>)

====
